---- MODULE Spec2Model ----
(***************************************************************************)
(* A model of the documentation pipeline: the Model Client's retrying      *)
(* query (src/src/llm_agent.py), the Structure Classifier                  *)
(* (src/src/repository_handler.py), the Workflow Inferrer                  *)
(* (src/workflow_analyzer.py), the Documentation Assembler                 *)
(* (src/src/documentation_generator.py), the Publisher                     *)
(* (src/documentation_publisher.py) and main (src/main.py).                *)
(*                                                                         *)
(* A Python str is a sequence of one-character strings, so that the string *)
(* operations of the code (replace, endswith, splitext, ...) are computed. *)
(* A generated document is a sequence of tokens (also strings).            *)
(***************************************************************************)
EXTENDS Integers, Sequences, FiniteSets, TLC

(***************************************************************************)
(* Python string operations                                                *)
(***************************************************************************)

\* s[i:] of Python, with the 1-based index i of the first character kept
Drop(s, i) ==
    IF i > Len(s) THEN <<>> ELSE SubSeq(s, i, Len(s))

\* s[:n] of Python
Take(s, n) ==
    IF n <= 0 THEN <<>> ELSE SubSeq(s, 1, IF n < Len(s) THEN n ELSE Len(s))

\* str.startswith
StartsWith(s, p) ==
    /\ Len(p) <= Len(s)
    /\ Take(s, Len(p)) = p

\* str.endswith
EndsWith(s, p) ==
    /\ Len(p) <= Len(s)
    /\ Drop(s, Len(s) - Len(p) + 1) = p

\* the positions at which sub occurs in s
Occurrences(s, sub) ==
    {i \in 1..(Len(s) - Len(sub) + 1) : SubSeq(s, i, i + Len(sub) - 1) = sub}

\* sub in s
Contains(s, sub) ==
    Occurrences(s, sub) # {}

\* str.find, 1-based; 0 when sub does not occur
Find(s, sub) ==
    IF Occurrences(s, sub) = {} THEN 0
    ELSE CHOOSE i \in Occurrences(s, sub) : \A j \in Occurrences(s, sub) : i <= j

\* str.rfind, 1-based; 0 when sub does not occur
RFind(s, sub) ==
    IF Occurrences(s, sub) = {} THEN 0
    ELSE CHOOSE i \in Occurrences(s, sub) : \A j \in Occurrences(s, sub) : i >= j

\* str.lower
Lower(s) ==
    LET UpperCase == <<"A","B","C","D","E","F","G","H","I","J","K","L","M",
                       "N","O","P","Q","R","S","T","U","V","W","X","Y","Z">>
        LowerCase == <<"a","b","c","d","e","f","g","h","i","j","k","l","m",
                       "n","o","p","q","r","s","t","u","v","w","x","y","z">>
        LowerChar(c) == IF \E i \in 1..26 : UpperCase[i] = c
                        THEN LowerCase[CHOOSE i \in 1..26 : UpperCase[i] = c]
                        ELSE c
    IN  [i \in 1..Len(s) |-> LowerChar(s[i])]

\* str.replace(old, new) for one-character old and new
ReplaceChar(s, old, new) ==
    [i \in 1..Len(s) |-> IF s[i] = old THEN new ELSE s[i]]

\* str.strip() for the whitespace of the model: space, tab, newline
IsSpace(c) ==
    c \in {" ", "\t", "\n"}

RECURSIVE LStrip(_)
LStrip(s) ==
    IF s # <<>> /\ IsSpace(Head(s)) THEN LStrip(Tail(s)) ELSE s

RECURSIVE RStrip(_)
RStrip(s) ==
    IF s # <<>> /\ IsSpace(s[Len(s)]) THEN RStrip(Take(s, Len(s) - 1)) ELSE s

Strip(s) ==
    RStrip(LStrip(s))

\* str.split(sep) for a non-empty separator: the list of the pieces
RECURSIVE Split(_, _)
Split(s, sep) ==
    IF Find(s, sep) = 0 THEN <<s>>
    ELSE <<Take(s, Find(s, sep) - 1)>> \o Split(Drop(s, Find(s, sep) + Len(sep)), sep)

\* str.replace(old, new) for any non-empty old
RECURSIVE ReplaceStr(_, _, _)
ReplaceStr(s, old, new) ==
    IF Find(s, old) = 0 THEN s
    ELSE Take(s, Find(s, old) - 1) \o new
         \o ReplaceStr(Drop(s, Find(s, old) + Len(old)), old, new)

(***************************************************************************)
(* os.path                                                                 *)
(***************************************************************************)

SEP == <<"/">>

\* os.path.dirname
DirName(p) ==
    IF RFind(p, SEP) = 0 THEN <<>> ELSE Take(p, RFind(p, SEP) - 1)

\* os.path.basename
BaseName(p) ==
    Drop(p, RFind(p, SEP) + 1)

\* os.path.join of two parts
Join(a, b) ==
    IF StartsWith(b, SEP) THEN b
    ELSE IF a = <<>> \/ EndsWith(a, SEP) THEN a \o b
    ELSE a \o SEP \o b

\* os.path.splitext(p)[1]: the suffix from the last dot of the last component,
\* empty when only dots precede that dot
SplitExt(p) ==
    LET name == BaseName(p)
        dot  == RFind(name, <<".">>)
    IN  IF dot > 0 /\ \E i \in 1..(dot - 1) : name[i] # "."
        THEN Drop(name, dot)
        ELSE <<>>

(***************************************************************************)
(* State                                                                   *)
(***************************************************************************)

VARIABLES
    pc,             \* where the single thread of control is
    run,            \* the number of the current invocation of main
    args,           \* the parsed command line and the environment credential
    api_key,        \* main: the credential in use
    remote,         \* the files of the repository at its source location
    repo,           \* the local repository path: [exists, files]
    out,            \* the output directory: [exists, files]
    llm,            \* LLMAgent.query: the call in progress
    memo,           \* the answers a repeatable endpoint has given, by prompt
    structure,      \* RepositoryHandler: the returned repo_structure
    wa,             \* WorkflowAnalyzer.analyze_workflow: its locals and result
    oa,             \* the output analysis handed to the generator
    gen,            \* DocumentationGenerator.generate_documentation: its locals
    documentation,  \* the returned DocumentationBundle
    pub,            \* DocumentationPublisher.publish_documentation: its locals
    trace           \* history: what each stage of the current run has done

vars ==
    <<pc, run, args, api_key, remote, repo, out, llm, memo, structure, wa, oa,
      gen, documentation, pub, trace>>

(***************************************************************************)
(* Model Client: LLMAgent (src/src/llm_agent.py)                           *)
(***************************************************************************)

\* self.max_retries
max_retries == 3

\* self.retry_delay, in seconds
retry_delay == 5

\* The kinds of exception the endpoint call raises (all are Exception subclasses)
ErrKinds == {"APIConnectionError", "RateLimitError"}

\* Python's None where a response, an exception or an endpoint outcome is held
NoResponse == [fmt |-> "None"]

NoError == [kind |-> "None"]

NoCall == [called |-> FALSE]

\* What the endpoint's message content is to its callers: markdown text, or a
\* text that json.loads rejects ("notjson") or parses to a list ("array") or to
\* a dict ("object") with the keys the callers read.  has_name says whether the
\* dict has the key workflow_name; text stands for its other keys.
Response(fmt, text, iep, desc, has_name, name) ==
    [fmt |-> fmt, text |-> text, is_entry_point |-> iep, description |-> desc,
     has_name |-> has_name, workflow_name |-> name]

NotJson == Response("notjson", <<"I cannot answer that.">>, FALSE, <<>>, FALSE, <<>>)

JsonArray == Response("array", <<"[]">>, FALSE, <<>>, FALSE, <<>>)

EntryObject(iep) ==
    Response("object", <<"{entry point analysis}">>, iep,
             IF iep THEN <<"runs the analysis">> ELSE <<>>, FALSE, <<>>)

WorkflowObject(has_name, name) ==
    Response("object", <<"{workflow}">>, FALSE, <<>>, has_name, name)

\* A deterministic documentation reply: a text that depends on the prompt only
Markdown(prompt) ==
    Response("markdown", <<"# Documentation for">> \o prompt, FALSE, <<>>, FALSE, <<>>)

\* No query in progress
IdleLLM ==
    [state |-> "idle", prompt |-> <<>>, attempt |-> 0, calls |-> 0,
     sleeps |-> <<>>, result |-> NoResponse, err |-> NoError, last |-> NoCall]

\* query is entered: for attempt in range(self.max_retries) starts at 0.
\* calls, sleeps and last are history: the endpoint calls made, the delays
\* slept and the outcome of the latest endpoint call of this query.
StartQuery(prompt) ==
    [state |-> "attempt", prompt |-> prompt, attempt |-> 0, calls |-> 0,
     sleeps |-> <<>>, result |-> NoResponse, err |-> NoError, last |-> NoCall]


\* The retry test off by one: the last failure sleeps too, and nothing is raised
ShouldRetry_OffByOne(attempt) ==
    attempt < max_retries

\* if attempt < self.max_retries - 1 in the except block
ShouldRetry(attempt) ==
    attempt < max_retries - 1

\* range(self.max_retries) has a next value after attempt
LoopContinues(attempt) ==
    attempt + 1 < max_retries

\* The state of query after the endpoint returned r: return content
QueryReturned(q, r) ==
    [q EXCEPT !.state = "returned", !.calls = @ + 1, !.result = r,
              !.last = [called |-> TRUE, ok |-> TRUE, val |-> r]]

\* The exception object the endpoint call number n raises
ErrorOf(kind, n) ==
    [kind |-> kind, at |-> n]

\* The except block without its sleep: the next attempt follows at once
QueryFailed_NoSleep(q, e) ==
    IF ShouldRetry(q.attempt)
    THEN [q EXCEPT !.state = "attempt", !.attempt = @ + 1, !.calls = @ + 1,
                   !.last = [called |-> TRUE, ok |-> FALSE, val |-> e]]
    ELSE [q EXCEPT !.state = "raised", !.calls = @ + 1, !.err = e,
                   !.last = [called |-> TRUE, ok |-> FALSE, val |-> e]]

\* The state of query after the endpoint raised e: sleep and go round the
\* loop, or re-raise the exception being handled
QueryFailed(q, e) ==
    IF ShouldRetry(q.attempt)
    THEN [q EXCEPT !.state = "sleep", !.calls = @ + 1,
                   !.last = [called |-> TRUE, ok |-> FALSE, val |-> e]]
    ELSE [q EXCEPT !.state = "raised", !.calls = @ + 1, !.err = e,
                   !.last = [called |-> TRUE, ok |-> FALSE, val |-> e]]

\* time.sleep(self.retry_delay) is over: the next iteration of the loop, or,
\* were the range exhausted, the end of the function (an implicit None)
QuerySlept(q) ==
    IF LoopContinues(q.attempt)
    THEN [q EXCEPT !.state = "attempt", !.attempt = @ + 1,
                   !.sleeps = Append(@, retry_delay)]
    ELSE [q EXCEPT !.state = "returned", !.attempt = @ + 1,
                   !.sleeps = Append(@, retry_delay), !.result = NoResponse]

(***************************************************************************)
(* Files.  A tree (the local repository, the remote repository, the output *)
(* directory) is the sequence of its files in directory-listing order; a   *)
(* file is [path, size, text, body]: its path relative to the root, its    *)
(* size in bytes, whether open(path, 'r').read(1024) decodes, and what it  *)
(* holds.  Directories are those of the paths.                             *)
(***************************************************************************)

File(path, size, text, body) ==
    [path |-> path, size |-> size, text |-> text, body |-> body]

RECURSIVE Dedup(_)
\* The sequence s without the later copies of its elements
Dedup(s) ==
    IF s = <<>> THEN <<>>
    ELSE LET r == Dedup(Take(s, Len(s) - 1))
         IN  IF \E i \in 1..Len(r) : r[i] = s[Len(s)] THEN r
             ELSE Append(r, s[Len(s)])

RECURSIVE Flatten(_)
\* The concatenation of a sequence of sequences
Flatten(ss) ==
    IF ss = <<>> THEN <<>> ELSE Head(ss) \o Flatten(Tail(ss))

\* The path p lies (at any depth) in directory dir; <<>> is the root
IsUnder(p, dir) ==
    dir = <<>> \/ StartsWith(p, dir \o SEP)

\* The name of the child of dir on the way to p
ChildOf(p, dir) ==
    LET rest == IF dir = <<>> THEN p ELSE Drop(p, Len(dir) + 2)
    IN  Take(rest, Find(rest, SEP) - 1)

GIT_DIR == <<".","g","i","t">>

RECURSIVE WalkDir(_, _)
\* os.walk(root) as both walkers use it: top down, the files of a directory
\* before those of its subdirectories, a subdirectory named .git pruned
\* (dirs.remove('.git'))
WalkDir(files, dir) ==
    LET here    == SelectSeq(files, LAMBDA f : DirName(f.path) = dir)
        below   == SelectSeq(files, LAMBDA f : IsUnder(f.path, dir) /\ DirName(f.path) # dir)
        subdirs == Dedup([i \in 1..Len(below) |-> ChildOf(below[i].path, dir)])
        kept    == SelectSeq(subdirs, LAMBDA d : d # GIT_DIR)
    IN  here \o Flatten([i \in 1..Len(kept) |-> WalkDir(files, Join(dir, kept[i]))])

\* os.walk(root) with no pruning, as the Publisher's mirroring uses it
RECURSIVE WalkAll(_, _)
WalkAll(files, dir) ==
    LET here    == SelectSeq(files, LAMBDA f : DirName(f.path) = dir)
        below   == SelectSeq(files, LAMBDA f : IsUnder(f.path, dir) /\ DirName(f.path) # dir)
        subdirs == Dedup([i \in 1..Len(below) |-> ChildOf(below[i].path, dir)])
    IN  here \o Flatten([i \in 1..Len(subdirs) |-> WalkAll(files, Join(dir, subdirs[i]))])

\* The tree holds a file at path p
HasFile(files, p) ==
    \E i \in 1..Len(files) : files[i].path = p

\* The file at path p of a tree that holds one
FileAt(files, p) ==
    files[CHOOSE i \in 1..Len(files) : files[i].path = p]

\* open(p, 'w').write(body), or shutil.copy to p: the file is replaced where
\* it is, or listed last when it is new; its size is that of what was written
WriteFile(files, p, body) ==
    IF HasFile(files, p)
    THEN [i \in 1..Len(files) |->
            IF files[i].path = p THEN File(p, Len(body), TRUE, body) ELSE files[i]]
    ELSE Append(files, File(p, Len(body), TRUE, body))

(***************************************************************************)
(* Structure Classifier: RepositoryHandler (src/src/repository_handler.py) *)
(***************************************************************************)

\* The size above which a file is skipped
MAX_FILE_SIZE == 1000000

\* _extract_repo_name: repo_url.split('/')[-1].replace('.git', '')
ExtractRepoName(url) ==
    ReplaceStr(Split(url, SEP)[Len(Split(url, SEP))], <<".","g","i","t">>, <<>>)

\* _is_binary_file: the read raises UnicodeDecodeError
IsBinaryFile(f) ==
    ~f.text


\* The size test with >= for >
Skipped_AtLimit(f) ==
    IsBinaryFile(f) \/ f.size >= MAX_FILE_SIZE

\* self._is_binary_file(file_path) or os.path.getsize(file_path) > 1000000
Skipped(f) ==
    IsBinaryFile(f) \/ f.size > MAX_FILE_SIZE

\* _determine_file_type
DetermineFileType(filename) ==
    LET ext == Lower(SplitExt(filename))
    IN  IF ext \in {<<".","p","y">>} THEN "python"
        ELSE IF ext \in {<<".","r">>, <<".","r","m","d">>} THEN "r"
        ELSE IF ext \in {<<".","s","h">>, <<".","b","a","s","h">>} THEN "shell"
        ELSE IF ext \in {<<".","c">>, <<".","c","p","p">>, <<".","c","c">>, <<".","h">>, <<".","h","p","p">>} THEN "c++"
        ELSE IF ext \in {<<".","j","a","v","a">>} THEN "java"
        ELSE IF ext \in {<<".","j","s">>, <<".","t","s">>} THEN "javascript"
        ELSE IF ext \in {<<".","m","d">>, <<".","m","a","r","k","d","o","w","n">>} THEN "markdown"
        ELSE IF ext \in {<<".","j","s","o","n">>} THEN "json"
        ELSE IF ext \in {<<".","y","m","l">>, <<".","y","a","m","l">>} THEN "yaml"
        ELSE IF ext \in {<<".","t","x","t">>} THEN "text"
        ELSE IF ext \in {<<".","c","s","v">>, <<".","t","s","v">>} THEN "data"
        ELSE "other"

\* The entry appended to repo_structure['files'] for a walked file
FileRecord(f) ==
    [path |-> f.path, type |-> DetermineFileType(BaseName(f.path)), size |-> f.size]

\* The loop over os.walk: the records of the files that are not skipped
ClassifiedFiles(files) ==
    LET walked == WalkDir(files, <<>>)
        kept   == SelectSeq(walked, LAMBDA f : ~Skipped(f))
    IN  [i \in 1..Len(kept) |-> FileRecord(kept[i])]

\* repo_structure['languages']: the file count of each type, a dict in the
\* order in which the types were first met
Languages(records) ==
    LET types == Dedup([i \in 1..Len(records) |-> records[i].type])
    IN  [i \in 1..Len(types) |->
            [type |-> types[i],
             count |-> Cardinality({j \in 1..Len(records) : records[j].type = types[i]})]]

\* The bin test at any depth and for the six source categories
IsEntryPoint_AnyBin(r) ==
    \/ EndsWith(r.path, <<"m","a","i","n",".","p","y">>)
    \/ EndsWith(r.path, <<"r","u","n",".","p","y">>)
    \/ EndsWith(r.path, <<"a","p","p",".","p","y">>)
    \/ EndsWith(r.path, <<"s","e","t","u","p",".","p","y">>)
    \/ /\ \/ StartsWith(r.path, <<"b","i","n","/">>)
          \/ Contains(r.path, <<"/","b","i","n","/">>)
       /\ r.type \in {"python", "r", "shell", "c++", "java", "javascript"}

\* The condition under which _identify_entry_points appends a file
IsEntryPoint(r) ==
    \/ EndsWith(r.path, <<"m","a","i","n",".","p","y">>)
    \/ EndsWith(r.path, <<"r","u","n",".","p","y">>)
    \/ EndsWith(r.path, <<"a","p","p",".","p","y">>)
    \/ (StartsWith(r.path, <<"b","i","n","/">>) /\ r.type \in {"python", "r", "shell"})
    \/ EndsWith(r.path, <<"s","e","t","u","p",".","p","y">>)

\* _identify_entry_points
IdentifyEntryPoints(records) ==
    LET eps == SelectSeq(records, IsEntryPoint)
    IN  [i \in 1..Len(eps) |-> eps[i].path]

NEWLINE == <<"\n">>

\* The python list of _identify_dependencies: the stripped lines of
\* requirements.txt that are neither empty nor comments
RequirementLines(body) ==
    LET lines    == Split(body, NEWLINE)
        stripped == [i \in 1..Len(lines) |-> Strip(lines[i])]
    IN  SelectSeq(stripped, LAMBDA l : l # <<>> /\ ~StartsWith(l, <<"#">>))

\* The r list of _identify_dependencies: of the text between 'Imports:' and
\* the next blank line, what each stripped line holds before its first comma
DescriptionImports(body) ==
    IF ~Contains(body, <<"I","m","p","o","r","t","s",":">>) THEN <<>>
    ELSE LET section == Split(Split(body, <<"I","m","p","o","r","t","s",":">>)[2], <<"\n", "\n">>)[1]
             lines   == Split(section, NEWLINE)
             firsts  == [i \in 1..Len(lines) |-> Split(Strip(lines[i]), <<",">>)[1]]
         IN  SelectSeq(firsts, LAMBDA l : l # <<>>)

\* _identify_dependencies, from the files at the root of the repository
IdentifyDependencies(files) ==
    [python |-> IF HasFile(files, <<"r","e","q","u","i","r","e","m","e","n","t","s",".","t","x","t">>)
                THEN RequirementLines(FileAt(files, <<"r","e","q","u","i","r","e","m","e","n","t","s",".","t","x","t">>).body)
                ELSE <<>>,
     r      |-> IF HasFile(files, <<"D","E","S","C","R","I","P","T","I","O","N">>)
                THEN DescriptionImports(FileAt(files, <<"D","E","S","C","R","I","P","T","I","O","N">>).body)
                ELSE <<>>,
     system |-> <<>>]

\* analyze_repository_structure: the returned repo_structure.  os.walk yields
\* nothing for a root that does not exist.
AnalyzeRepositoryStructure(name, tree) ==
    LET files   == IF tree.exists THEN tree.files ELSE <<>>
        records == ClassifiedFiles(files)
    IN  [name |-> name,
         files |-> records,
         languages |-> Languages(records),
         entry_points |-> IdentifyEntryPoints(records),
         dependencies |-> IdentifyDependencies(files)]

(***************************************************************************)
(* The endpoint, as query sees it                                          *)
(***************************************************************************)

\* What the endpoint may answer to the entry-point prompt of a file
EntryResponses ==
    {NotJson, JsonArray, EntryObject(FALSE), EntryObject(TRUE)}

\* The workflow names the endpoint gives
WorkflowNames ==
    {<<"D","a","t","a"," ","I","m","p","o","r","t">>, <<"D","a","t","a","_","I","m","p","o","r","t">>}

\* What the endpoint may answer to the workflow prompt of an entry point
WorkflowResponses ==
    {NotJson, JsonArray, WorkflowObject(FALSE, <<>>)}
        \cup {WorkflowObject(TRUE, n) : n \in WorkflowNames}

\* What the endpoint may answer to an aggregate prompt
AggregateResponses ==
    {NotJson, Response("array", <<"[assessment]">>, FALSE, <<>>, FALSE, <<>>)}

\* What the endpoint may answer to a prompt; the first token of a prompt says
\* which template it was built from
Responses(prompt) ==
    CASE Head(prompt) = "entry_point?" -> EntryResponses
      [] Head(prompt) = "workflow?" -> WorkflowResponses
      [] Head(prompt) \in {"scaling?", "bottlenecks?"} -> AggregateResponses
      [] OTHER -> {Markdown(prompt)}

\* memo.on: the endpoint is a repeatable stub (the same text for the same
\* prompt); memo.seen: the answers it has given
Remembered(p) ==
    {m \in memo.seen : m.prompt = p}

Allowed(p) ==
    IF memo.on /\ Remembered(p) # {}
    THEN {m.response : m \in Remembered(p)}
    ELSE Responses(p)

Remember(p, r) ==
    IF memo.on
    THEN [memo EXCEPT !.seen = @ \cup {[prompt |-> p, response |-> r]}]
    ELSE memo

\* client.chat.completions.create returns, and query returns the content
EndpointReturns ==
    /\ llm.state = "attempt"
    /\ \E r \in Allowed(llm.prompt) :
        /\ llm' = QueryReturned(llm, r)
        /\ memo' = Remember(llm.prompt, r)
    /\ UNCHANGED <<pc, run, args, api_key, remote, repo, out, structure, wa, oa,
                   gen, documentation, pub, trace>>

\* client.chat.completions.create raises
EndpointRaises ==
    /\ llm.state = "attempt"
    /\ \E k \in ErrKinds : llm' = QueryFailed(llm, ErrorOf(k, llm.calls + 1))
    /\ UNCHANGED <<pc, run, args, api_key, remote, repo, out, memo, structure, wa,
                   oa, gen, documentation, pub, trace>>

\* time.sleep(self.retry_delay) returns
SleepEnds ==
    /\ llm.state = "sleep"
    /\ llm' = QuerySlept(llm)
    /\ UNCHANGED <<pc, run, args, api_key, remote, repo, out, memo, structure, wa,
                   oa, gen, documentation, pub, trace>>

\* json.loads(response) raises, or what is done with its value raises: the
\* value is no dict (a None response raises TypeError in json.loads)
IsJson(r) ==
    r.fmt \in {"array", "object"}

IsJsonObject(r) ==
    r.fmt = "object"

\* json.dumps of the value json.loads gave
JsonText(r) ==
    r.text

(***************************************************************************)
(* Workflow Inferrer: WorkflowAnalyzer (src/workflow_analyzer.py)          *)
(***************************************************************************)

\* _is_code_file
IsCodeFile(filename) ==
    Lower(SplitExt(filename)) \in
        {<<".","p","y">>, <<".","r">>, <<".","r","m","d">>, <<".","s","h">>, <<".","b","a","s","h">>, <<".","c">>, <<".","c","p","p">>, <<".","h">>, <<".","h","p","p">>,
         <<".","j","a","v","a">>, <<".","j","s">>, <<".","t","s">>}

\* _get_analysis_files: the code files among the walked files that are not
\* skipped, with their content
GetAnalysisFiles(tree) ==
    LET files  == IF tree.exists THEN tree.files ELSE <<>>
        walked == WalkDir(files, <<>>)
        kept   == SelectSeq(walked, LAMBDA f : ~Skipped(f) /\ IsCodeFile(BaseName(f.path)))
    IN  [i \in 1..Len(kept) |-> [path |-> kept[i].path, content |-> kept[i].body]]

\* 'main' in path.lower() or 'run' in path.lower() or 'app' in path.lower()
LooksLikeEntryPoint(f) ==
    \/ Contains(Lower(f.path), <<"m","a","i","n">>)
    \/ Contains(Lower(f.path), <<"r","u","n">>)
    \/ Contains(Lower(f.path), <<"a","p","p">>)

\* potential_entry_points of _analyze_entry_points
PotentialEntryPoints(analysis_files) ==
    IF SelectSeq(analysis_files, LooksLikeEntryPoint) = <<>>
    THEN analysis_files
    ELSE SelectSeq(analysis_files, LooksLikeEntryPoint)

\* The prompt of _analyze_entry_points for a file
EntryPrompt(f) ==
    <<"entry_point?", "File:">> \o f.path \o <<"[code]">> \o f.content \o <<"[code]">>

\* The prompt of _analyze_workflows for an entry point and its file
WorkflowPrompt(f, ep) ==
    <<"workflow?", "Entry point file:">> \o f.path
        \o <<"Entry point description:">> \o ep.description
        \o <<"[code]">> \o f.content \o <<"[code]">>

\* json.dumps(workflow, indent=2) of an accepted workflow
DumpWorkflow(w) ==
    <<"{">> \o (IF w.has_name THEN <<"workflow_name:">> \o w.workflow_name ELSE <<>>)
        \o <<"steps:">> \o w.steps \o <<"entry_point:">> \o w.entry_point \o <<"}">>

\* json.dumps(workflows, indent=2)
DumpWorkflows(ws) ==
    <<"[">> \o Flatten([i \in 1..Len(ws) |-> DumpWorkflow(ws[i])]) \o <<"]">>

\* The prompt of _analyze_scaling_limitations
ScalingPrompt(ws) ==
    <<"scaling?">> \o DumpWorkflows(ws)

\* The prompt of _analyze_bottlenecks
BottleneckPrompt(ws) ==
    <<"bottlenecks?">> \o DumpWorkflows(ws)


\* The entry appended whatever the reply was
EntryPointsAfter_Unchecked(entry_points, f, r) ==
    Append(entry_points, [path |-> f.path, description |-> r.description])

\* The entry_points list after the reply r for file f: an entry is appended
\* when the reply parses to a dict whose is_entry_point is true; the bare
\* except swallows everything else.  Of the entry, path and description are
\* read later; the other keys are not.
EntryPointsAfter(entry_points, f, r) ==
    IF IsJsonObject(r) /\ r.is_entry_point
    THEN Append(entry_points, [path |-> f.path, description |-> r.description])
    ELSE entry_points

\* The workflows list after the reply r for entry point ep: the parsed dict
\* gets the key entry_point and is appended; the bare except swallows a
\* reply that does not parse or is no dict
WorkflowsAfter(workflows, ep, r) ==
    IF IsJsonObject(r)
    THEN Append(workflows, [has_name |-> r.has_name, workflow_name |-> r.workflow_name,
                            steps |-> r.text, entry_point |-> ep.path])
    ELSE workflows

\* The defaults of the aggregates: {} and []
EMPTY_DICT == <<"{}">>

EMPTY_LIST == <<"[]">>

\* return json.loads(response), or the default in the except branch
AggregateAfter(r, default) ==
    IF IsJson(r) THEN JsonText(r) ELSE default

NoAnalysis == [returned |-> FALSE]

\* WorkflowAnalyzer before analyze_workflow has run.  queries, unparsed and
\* replies are history: the queries issued for candidates, for accepted entry
\* points and for aggregates, the candidates whose reply json.loads rejected,
\* and the formats of the replies to the aggregate queries.
InitialWa ==
    [analysis_files |-> <<>>, potential |-> <<>>, i |-> 1, entry_points |-> <<>>,
     j |-> 1, workflows |-> <<>>,
     scaling_limitations |-> EMPTY_DICT, bottlenecks |-> EMPTY_LIST,
     queries |-> [candidate |-> 0, workflow |-> 0, aggregate |-> 0],
     unparsed |-> <<>>, replies |-> <<>>,
     result |-> NoAnalysis]

WaPcs ==
    {"wa_entry", "wa_workflows", "wa_scaling", "wa_bottlenecks"}

\* analyze_workflow is entered: _get_analysis_files, and the candidates of
\* _analyze_entry_points
WaStart ==
    /\ pc = "wa_start"
    /\ wa' = [InitialWa EXCEPT
                !.analysis_files = GetAnalysisFiles(repo),
                !.potential = PotentialEntryPoints(GetAnalysisFiles(repo))]
    /\ pc' = "wa_entry"
    /\ UNCHANGED <<run, args, api_key, remote, repo, out, llm, memo, structure, oa,
                   gen, documentation, pub>>
    /\ trace' = [trace EXCEPT !.started = Append(@, "Inferrer")]

\* _analyze_entry_points: the query for the next candidate
WaEntryQuery ==
    /\ pc = "wa_entry"
    /\ llm.state = "idle"
    /\ wa.i <= Len(wa.potential)
    /\ llm' = StartQuery(EntryPrompt(wa.potential[wa.i]))
    /\ wa' = [wa EXCEPT !.queries.candidate = @ + 1]
    /\ UNCHANGED <<pc, run, args, api_key, remote, repo, out, memo, structure, oa,
                   gen, documentation, pub, trace>>

\* _analyze_entry_points: the reply is parsed, and the loop goes on
WaEntryReply ==
    /\ pc = "wa_entry"
    /\ llm.state = "returned"
    /\ wa' = [wa EXCEPT
                !.entry_points = EntryPointsAfter(@, wa.potential[wa.i], llm.result),
                !.unparsed = IF llm.result.fmt = "notjson"
                             THEN Append(@, wa.potential[wa.i].path) ELSE @,
                !.i = @ + 1]
    /\ llm' = IdleLLM
    /\ UNCHANGED <<pc, run, args, api_key, remote, repo, out, memo, structure, oa,
                   gen, documentation, pub, trace>>

\* _analyze_entry_points returns
WaEntryDone ==
    /\ pc = "wa_entry"
    /\ llm.state = "idle"
    /\ wa.i > Len(wa.potential)
    /\ pc' = "wa_workflows"
    /\ UNCHANGED <<run, args, api_key, remote, repo, out, llm, memo, structure, wa,
                   oa, gen, documentation, pub, trace>>

\* The file of an entry point among the analysis files
HasEntryFile(ep) ==
    \E i \in 1..Len(wa.analysis_files) : wa.analysis_files[i].path = ep.path

EntryFile(ep) ==
    wa.analysis_files[CHOOSE i \in 1..Len(wa.analysis_files) :
                        wa.analysis_files[i].path = ep.path]

\* _analyze_workflows: the query for the next entry point (an entry point
\* whose file is not among the analysis files is passed over)
WaWorkflowQuery ==
    /\ pc = "wa_workflows"
    /\ llm.state = "idle"
    /\ wa.j <= Len(wa.entry_points)
    /\ IF HasEntryFile(wa.entry_points[wa.j])
       THEN /\ llm' = StartQuery(WorkflowPrompt(EntryFile(wa.entry_points[wa.j]),
                                                wa.entry_points[wa.j]))
            /\ wa' = [wa EXCEPT !.queries.workflow = @ + 1]
       ELSE /\ llm' = llm
            /\ wa' = [wa EXCEPT !.j = @ + 1]
    /\ UNCHANGED <<pc, run, args, api_key, remote, repo, out, memo, structure, oa,
                   gen, documentation, pub, trace>>

\* _analyze_workflows: the reply is parsed, and the loop goes on
WaWorkflowReply ==
    /\ pc = "wa_workflows"
    /\ llm.state = "returned"
    /\ wa' = [wa EXCEPT
                !.workflows = WorkflowsAfter(@, wa.entry_points[wa.j], llm.result),
                !.j = @ + 1]
    /\ llm' = IdleLLM
    /\ UNCHANGED <<pc, run, args, api_key, remote, repo, out, memo, structure, oa,
                   gen, documentation, pub, trace>>

\* _analyze_workflows returns
WaWorkflowDone ==
    /\ pc = "wa_workflows"
    /\ llm.state = "idle"
    /\ wa.j > Len(wa.entry_points)
    /\ pc' = "wa_scaling"
    /\ UNCHANGED <<run, args, api_key, remote, repo, out, llm, memo, structure, wa,
                   oa, gen, documentation, pub>>
    /\ trace' = [trace EXCEPT !.finished = @ \cup {"Inferrer"},
                              !.started = Append(@, "Summarizer")]


\* The aggregate analyses without their early return
NoWorkflows_Never(workflows) ==
    FALSE

\* if not workflows of both aggregate analyses
NoWorkflows(workflows) ==
    workflows = <<>>

\* _analyze_scaling_limitations: {} at once without workflows, else the query
WaScalingQuery ==
    /\ pc = "wa_scaling"
    /\ llm.state = "idle"
    /\ IF NoWorkflows(wa.workflows)
       THEN /\ wa' = [wa EXCEPT !.scaling_limitations = EMPTY_DICT]
            /\ pc' = "wa_bottlenecks"
            /\ llm' = llm
       ELSE /\ wa' = [wa EXCEPT !.queries.aggregate = @ + 1]
            /\ pc' = pc
            /\ llm' = StartQuery(ScalingPrompt(wa.workflows))
    /\ UNCHANGED <<run, args, api_key, remote, repo, out, memo, structure, oa,
                   gen, documentation, pub, trace>>

\* _analyze_scaling_limitations: the reply is parsed or defaulted
WaScalingReply ==
    /\ pc = "wa_scaling"
    /\ llm.state = "returned"
    /\ wa' = [wa EXCEPT !.scaling_limitations = AggregateAfter(llm.result, EMPTY_DICT),
                         !.replies = Append(@, llm.result.fmt)]
    /\ llm' = IdleLLM
    /\ pc' = "wa_bottlenecks"
    /\ UNCHANGED <<run, args, api_key, remote, repo, out, memo, structure, oa,
                   gen, documentation, pub, trace>>

\* The workflow_analysis analyze_workflow returns
WorkflowAnalysis(w) ==
    [returned |-> TRUE, entry_points |-> w.entry_points, workflows |-> w.workflows,
     scaling_limitations |-> w.scaling_limitations, bottlenecks |-> w.bottlenecks]

\* _analyze_bottlenecks: [] at once without workflows, else the query
WaBottleneckQuery ==
    /\ pc = "wa_bottlenecks"
    /\ llm.state = "idle"
    /\ IF NoWorkflows(wa.workflows)
       THEN /\ wa' = [wa EXCEPT !.bottlenecks = EMPTY_LIST,
                                !.result = WorkflowAnalysis([wa EXCEPT !.bottlenecks = EMPTY_LIST])]
            /\ pc' = "wa_returned"
            /\ llm' = llm
            /\ trace' = [trace EXCEPT !.finished = @ \cup {"Summarizer"}]
       ELSE /\ wa' = [wa EXCEPT !.queries.aggregate = @ + 1]
            /\ pc' = pc
            /\ llm' = StartQuery(BottleneckPrompt(wa.workflows))
            /\ trace' = trace
    /\ UNCHANGED <<run, args, api_key, remote, repo, out, memo, structure, oa,
                   gen, documentation, pub>>

\* _analyze_bottlenecks: the reply is parsed or defaulted, and analyze_workflow
\* returns the aggregated result
WaBottleneckReply ==
    /\ pc = "wa_bottlenecks"
    /\ llm.state = "returned"
    /\ LET b == AggregateAfter(llm.result, EMPTY_LIST)
       IN  wa' = [wa EXCEPT !.bottlenecks = b,
                            !.replies = Append(@, llm.result.fmt),
                            !.result = WorkflowAnalysis([wa EXCEPT !.bottlenecks = b])]
    /\ llm' = IdleLLM
    /\ pc' = "wa_returned"
    /\ UNCHANGED <<run, args, api_key, remote, repo, out, memo, structure, oa,
                   gen, documentation, pub>>
    /\ trace' = [trace EXCEPT !.finished = @ \cup {"Summarizer"}]

\* The stage a step of analyze_workflow belongs to: the per-file analyses are
\* the Inferrer, the two aggregate analyses the Summarizer
StageOf(p) ==
    IF p \in {"wa_entry", "wa_workflows"} THEN "Inferrer" ELSE "Summarizer"

\* The error of a query handled like a reply that does not parse: a warning,
\* and the analysis goes on with the next item or the default
WaRaise_AsParseFailure ==
    /\ pc \in WaPcs
    /\ llm.state = "raised"
    /\ wa' = IF pc = "wa_entry" THEN [wa EXCEPT !.i = @ + 1]
             ELSE IF pc = "wa_workflows" THEN [wa EXCEPT !.j = @ + 1]
             ELSE wa
    /\ pc' = IF pc = "wa_scaling" THEN "wa_bottlenecks"
             ELSE IF pc = "wa_bottlenecks" THEN "wa_raised"
             ELSE pc
    /\ llm' = IdleLLM
    /\ UNCHANGED <<run, args, api_key, remote, repo, out, memo, structure, oa, gen,
                   documentation, pub, trace>>

\* A query raised: analyze_workflow logs the error and re-raises it
WaRaise ==
    /\ pc \in WaPcs
    /\ llm.state = "raised"
    /\ pc' = "wa_raised"
    /\ UNCHANGED <<run, args, api_key, remote, repo, out, llm, memo, structure, wa,
                   oa, gen, documentation, pub>>
    /\ trace' = [trace EXCEPT !.raised = @ \cup {StageOf(pc)}]

(***************************************************************************)
(* Ordered dicts: a Python dict is the sequence of its items [key, val] in *)
(* insertion order                                                         *)
(***************************************************************************)

HasKey(d, k) ==
    \E i \in 1..Len(d) : d[i].key = k

\* d[k] = v: the value of a key already there is replaced where it is
DictSet(d, k, v) ==
    IF HasKey(d, k)
    THEN [i \in 1..Len(d) |-> IF d[i].key = k THEN [key |-> k, val |-> v] ELSE d[i]]
    ELSE Append(d, [key |-> k, val |-> v])

Keys(d) ==
    [i \in 1..Len(d) |-> d[i].key]

(***************************************************************************)
(* Documentation Assembler: DocumentationGenerator                         *)
(* (src/src/documentation_generator.py)                                    *)
(***************************************************************************)

\* The text of a response as it is stored in the bundle (None has none)
TextOf(r) ==
    IF r.fmt = "None" THEN <<"None">> ELSE r.text

RECURSIVE NumStr(_)
\* str(n) for n >= 0
NumStr(n) ==
    LET Digits == <<"0", "1", "2", "3", "4", "5", "6", "7", "8", "9">>
    IN  IF n < 10 THEN <<Digits[n + 1]>>
        ELSE NumStr(n \div 10) \o <<Digits[(n % 10) + 1]>>

\* json.dumps of a list of strings
DumpList(items) ==
    <<"[">> \o Flatten([i \in 1..Len(items) |-> items[i] \o <<",">>]) \o <<"]">>

\* json.dumps of repo_structure['languages']
DumpLanguages(langs) ==
    <<"{">> \o Flatten([i \in 1..Len(langs) |->
                          <<langs[i].type, ":">> \o NumStr(langs[i].count) \o <<",">>])
        \o <<"}">>

\* json.dumps of repo_structure['dependencies']
DumpDependencies(deps) ==
    <<"{", "python:">> \o DumpList(deps.python) \o <<"r:">> \o DumpList(deps.r)
        \o <<"system:">> \o DumpList(deps.system) \o <<"}">>

\* w['workflow_name'] raises KeyError for some workflow of the analysis
SomeNameMissing(workflows) ==
    \E i \in 1..Len(workflows) : ~workflows[i].has_name

\* The prompt of _generate_main_readme
ReadmePrompt(s, workflows) ==
    <<"readme!", "name:">> \o s.name
        \o <<"languages:">> \o DumpLanguages(s.languages)
        \o <<"entry_points:">> \o DumpList(s.entry_points)
        \o <<"workflows:">> \o DumpList([i \in 1..Len(workflows) |-> workflows[i].workflow_name])

\* The prompt of _generate_installation_guide
InstallPrompt(s) ==
    <<"installation!", "name:">> \o s.name
        \o <<"dependencies:">> \o DumpDependencies(s.dependencies)

\* The prompt of _generate_workflow_docs for a workflow
WorkflowDocPrompt(w) ==
    <<"workflow doc!">> \o DumpWorkflow(w)

\* file_types of _generate_output_docs: the types of the output files, in
\* the order in which they were first met
OutputTypes(files) ==
    Dedup([i \in 1..Len(files) |-> files[i].file_type])

\* The prompt of _generate_output_docs for a file type
OutputDocPrompt(files, t) ==
    LET mine == SelectSeq(files, LAMBDA f : f.file_type = t)
    IN  <<"output doc!", "type:">> \o t
            \o <<"files:">> \o DumpList([i \in 1..Len(mine) |-> mine[i].name])

\* The prompt of _generate_scaling_guide
ScalingGuidePrompt(s, analysis) ==
    <<"scaling guide!", "name:">> \o s.name
        \o <<"limitations:">> \o analysis.scaling_limitations
        \o <<"bottlenecks:">> \o analysis.bottlenecks

\* failure_points of _generate_troubleshooting_guide: the potential_failures
\* of the steps of every workflow
FailurePoints(workflows) ==
    Flatten([i \in 1..Len(workflows) |-> <<"failures of">> \o workflows[i].entry_point])

\* The prompt of _generate_troubleshooting_guide
TroubleshootingPrompt(s, analysis) ==
    <<"troubleshooting!", "name:">> \o s.name
        \o <<"failure points:">> \o FailurePoints(analysis.workflows)

\* The categories for which _generate_code_docs documents a file
CodeTypes ==
    {"python", "r", "shell", "c++", "java", "javascript"}

\* code_files of _generate_code_docs: the records of a code category, with
\* the content read from the repository
CodeFiles(s, tree) ==
    LET recs == SelectSeq(s.files, LAMBDA r : r.type \in CodeTypes)
    IN  [i \in 1..Len(recs) |->
            [path |-> recs[i].path, type |-> recs[i].type,
             content |-> IF HasFile(tree.files, recs[i].path)
                         THEN FileAt(tree.files, recs[i].path).body
                         ELSE <<>>]]

\* The prompt of _generate_code_docs for a file
CodeDocPrompt(f) ==
    <<"code doc!", "File:">> \o f.path \o <<"Type:", f.type, "[code]">>
        \o f.content \o <<"[code]">>

\* generate_documentation calls its generators in this order
GenSteps ==
    <<"readme", "installation", "workflows", "outputs", "scaling",
      "troubleshooting", "code">>

\* What a generator loops over: the workflows, the output file types, the
\* code files; the four single documents have one item
GenItems(step) ==
    CASE step = "workflows" -> wa.result.workflows
      [] step = "outputs" -> OutputTypes(oa.files)
      [] step = "code" -> CodeFiles(structure, repo)
      [] OTHER -> <<"the document">>

\* A generator raises KeyError before its query: building the readme's
\* summary, or reading the name of the workflow at hand
GenKeyErrorAt(step, k) ==
    \/ step = "readme" /\ SomeNameMissing(wa.result.workflows)
    \/ step = "workflows" /\ ~wa.result.workflows[k].has_name

\* The prompt of the k-th query of a generator
GenPrompt(step, k) ==
    CASE step = "readme" -> ReadmePrompt(structure, wa.result.workflows)
      [] step = "installation" -> InstallPrompt(structure)
      [] step = "workflows" -> WorkflowDocPrompt(wa.result.workflows[k])
      [] step = "outputs" -> OutputDocPrompt(oa.files, OutputTypes(oa.files)[k])
      [] step = "scaling" -> ScalingGuidePrompt(structure, wa.result)
      [] step = "troubleshooting" -> TroubleshootingPrompt(structure, wa.result)
      [] step = "code" -> CodeDocPrompt(CodeFiles(structure, repo)[k])

\* The locals of generate_documentation after the reply to the k-th query of
\* a generator is stored
GenStored(g, step, k, text) ==
    CASE step = "readme" -> [g EXCEPT !.main_readme = text]
      [] step = "installation" -> [g EXCEPT !.installation_guide = text]
      [] step = "workflows" ->
            [g EXCEPT !.workflow_docs =
                DictSet(@, wa.result.workflows[k].workflow_name, text)]
      [] step = "outputs" ->
            [g EXCEPT !.output_docs = DictSet(@, OutputTypes(oa.files)[k], text)]
      [] step = "scaling" -> [g EXCEPT !.scaling_guide = text]
      [] step = "troubleshooting" -> [g EXCEPT !.troubleshooting_guide = text]
      [] step = "code" ->
            [g EXCEPT !.code_docs = DictSet(@, CodeFiles(structure, repo)[k].path, text)]

InitialGen ==
    [s |-> 1, k |-> 1, main_readme |-> <<>>, installation_guide |-> <<>>,
     workflow_docs |-> <<>>, output_docs |-> <<>>, scaling_guide |-> <<>>,
     troubleshooting_guide |-> <<>>, code_docs |-> <<>>]

NoDocumentation == [returned |-> FALSE]

\* The documentation dict generate_documentation returns
Bundle(g) ==
    [returned |-> TRUE, main_readme |-> g.main_readme,
     installation_guide |-> g.installation_guide,
     workflow_docs |-> g.workflow_docs, output_docs |-> g.output_docs,
     scaling_guide |-> g.scaling_guide,
     troubleshooting_guide |-> g.troubleshooting_guide,
     code_docs |-> g.code_docs]

\* generate_documentation is entered
GenStart ==
    /\ pc = "gen_start"
    /\ gen' = InitialGen
    /\ pc' = "gen"
    /\ UNCHANGED <<run, args, api_key, remote, repo, out, llm, memo, structure, wa,
                   oa, documentation, pub>>
    /\ trace' = [trace EXCEPT !.started = Append(@, "Assembler")]

\* A generator issues its next query
GenQuery ==
    /\ pc = "gen"
    /\ llm.state = "idle"
    /\ gen.s <= Len(GenSteps)
    /\ gen.k <= Len(GenItems(GenSteps[gen.s]))
    /\ ~GenKeyErrorAt(GenSteps[gen.s], gen.k)
    /\ llm' = StartQuery(GenPrompt(GenSteps[gen.s], gen.k))
    /\ UNCHANGED <<pc, run, args, api_key, remote, repo, out, memo, structure, wa,
                   oa, gen, documentation, pub, trace>>

\* A generator stores the reply
GenReply ==
    /\ pc = "gen"
    /\ llm.state = "returned"
    /\ gen' = [GenStored(gen, GenSteps[gen.s], gen.k, TextOf(llm.result))
                  EXCEPT !.k = @ + 1]
    /\ llm' = IdleLLM
    /\ UNCHANGED <<pc, run, args, api_key, remote, repo, out, memo, structure, wa,
                   oa, documentation, pub, trace>>

\* A generator returns: the next one is called
GenNext ==
    /\ pc = "gen"
    /\ llm.state = "idle"
    /\ gen.s <= Len(GenSteps)
    /\ gen.k > Len(GenItems(GenSteps[gen.s]))
    /\ gen' = [gen EXCEPT !.s = @ + 1, !.k = 1]
    /\ UNCHANGED <<pc, run, args, api_key, remote, repo, out, llm, memo, structure,
                   wa, oa, documentation, pub, trace>>

\* generate_documentation returns the bundle
GenReturn ==
    /\ pc = "gen"
    /\ llm.state = "idle"
    /\ gen.s > Len(GenSteps)
    /\ documentation' = Bundle(gen)
    /\ pc' = "gen_returned"
    /\ UNCHANGED <<run, args, api_key, remote, repo, out, llm, memo, structure, wa,
                   oa, gen, pub>>
    /\ trace' = [trace EXCEPT !.finished = @ \cup {"Assembler"}]

\* A workflow has no workflow_name: KeyError, logged and re-raised
GenKeyError ==
    /\ pc = "gen"
    /\ llm.state = "idle"
    /\ gen.s <= Len(GenSteps)
    /\ gen.k <= Len(GenItems(GenSteps[gen.s]))
    /\ GenKeyErrorAt(GenSteps[gen.s], gen.k)
    /\ pc' = "gen_raised"
    /\ UNCHANGED <<run, args, api_key, remote, repo, out, llm, memo, structure, wa,
                   oa, gen, documentation, pub>>
    /\ trace' = [trace EXCEPT !.raised = @ \cup {"Assembler"},
                              !.gen_error = "KeyError"]


\* A generator that swallows the error of its query and stores None
GenRaise_Swallowed ==
    /\ pc = "gen"
    /\ llm.state = "raised"
    /\ gen' = [GenStored(gen, GenSteps[gen.s], gen.k, TextOf(NoResponse))
                  EXCEPT !.k = @ + 1]
    /\ llm' = IdleLLM
    /\ UNCHANGED <<pc, run, args, api_key, remote, repo, out, memo, structure, wa,
                   oa, documentation, pub>>
    /\ trace' = [trace EXCEPT !.gen_error = "query"]

\* A query raised: generate_documentation logs the error and re-raises it
GenRaise ==
    /\ pc = "gen"
    /\ llm.state = "raised"
    /\ pc' = "gen_raised"
    /\ UNCHANGED <<run, args, api_key, remote, repo, out, llm, memo, structure, wa,
                   oa, gen, documentation, pub>>
    /\ trace' = [trace EXCEPT !.raised = @ \cup {"Assembler"},
                              !.gen_error = "query"]

(***************************************************************************)
(* Publisher: DocumentationPublisher (src/documentation_publisher.py)      *)
(* Paths are relative to the output directory (writes) and to the          *)
(* repository path (copies)                                                *)
(***************************************************************************)

DOCS_DIR == <<"d","o","c","s">>

CODE_DOCS_DIR == Join(DOCS_DIR, <<"c","o","d","e">>)

WORKFLOW_DOCS_DIR == Join(DOCS_DIR, <<"w","o","r","k","f","l","o","w","s">>)

OUTPUT_DOCS_DIR == Join(DOCS_DIR, <<"o","u","t","p","u","t","s">>)

README == <<"R","E","A","D","M","E",".","m","d">>

MD == <<".","m","d">>

\* The sanitizer with the colon turned into a slash after the slashes were
\* replaced
SafeFilename_ColonToSlash(filename) ==
    ReplaceChar(ReplaceChar(ReplaceChar(ReplaceChar(filename, " ", "_"), "/", "_"),
                            "\\", "_"), ":", "/")

\* The sanitizer with trailing whitespace trimmed first
SafeFilename_Trimmed(filename) ==
    ReplaceChar(ReplaceChar(ReplaceChar(ReplaceChar(RStrip(filename), " ", "_"), "/", "_"),
                            "\\", "_"), ":", "_")

\* The sanitizer without the replacement of the slash
SafeFilename_KeepsSlash(filename) ==
    ReplaceChar(ReplaceChar(ReplaceChar(filename, " ", "_"), "\\", "_"), ":", "_")

\* _safe_filename
SafeFilename(filename) ==
    ReplaceChar(ReplaceChar(ReplaceChar(ReplaceChar(filename, " ", "_"), "/", "_"),
                            "\\", "_"), ":", "_")

RECURSIVE JoinLines(_)
\* "\n".join(lines)
JoinLines(lines) ==
    IF lines = <<>> THEN <<>>
    ELSE IF Len(lines) = 1 THEN lines[1]
    ELSE lines[1] \o NEWLINE \o JoinLines(Tail(lines))

\* The links in the reverse of the order of the dict
CreateListLinks_Reversed(items, prefix) ==
    JoinLines([i \in 1..Len(items) |->
        <<"- [">> \o items[Len(items) + 1 - i].key \o <<"](">> \o prefix \o SEP
            \o SafeFilename(items[Len(items) + 1 - i].key) \o MD \o <<")">>])

\* _create_list_links, with line 153 as the assignment of safe_name (line 152
\* is an unfinished copy of it)
CreateListLinks(items, prefix) ==
    JoinLines([i \in 1..Len(items) |->
        <<"- [">> \o items[i].key \o <<"](">> \o prefix \o SEP
            \o SafeFilename(items[i].key) \o MD \o <<")">>])

\* directories of _create_code_list: the paths grouped by os.path.dirname(path)
\* or "root", in the order in which the directories were first met
CodeDirectories(code_docs) ==
    LET DirOf(p) == IF DirName(p) = <<>> THEN <<"r","o","o","t">> ELSE DirName(p)
        names    == Dedup([i \in 1..Len(code_docs) |-> DirOf(code_docs[i].key)])
    IN  [d \in 1..Len(names) |->
            [dir_name |-> names[d],
             files |-> SelectSeq(Keys(code_docs), LAMBDA p : DirOf(p) = names[d])]]

\* The link of _create_code_list for a path
CodeLink(path) ==
    LET file_name == BaseName(path)
        safe_name == SafeFilename(file_name)
    IN  <<"- [">> \o file_name \o <<"](">>
            \o Join(<<"c","o","d","e">>, ReplaceStr(path, file_name, safe_name \o MD)) \o <<")">>

\* _create_code_list
CreateCodeList(code_docs) ==
    LET dirs == CodeDirectories(code_docs)
    IN  JoinLines(Flatten([d \in 1..Len(dirs) |->
            <<IF dirs[d].dir_name = <<"r","o","o","t">> THEN <<"### Root">>
              ELSE <<"### ">> \o dirs[d].dir_name>>
            \o [i \in 1..Len(dirs[d].files) |-> CodeLink(dirs[d].files[i])]
            \o << <<>> >>]))

\* main_index of _create_index_files
MainIndex(doc) ==
    <<"# Documentation Index", "## Installation and Setup",
      "- [Installation Guide](installation.md)", "## Workflows">>
        \o CreateListLinks(doc.workflow_docs, <<"w","o","r","k","f","l","o","w","s">>)
        \o <<"## Output Files">> \o CreateListLinks(doc.output_docs, <<"o","u","t","p","u","t","s">>)
        \o <<"## Advanced Topics", "- [Scaling Guide](scaling.md)",
             "- [Troubleshooting Guide](troubleshooting.md)", "## Code Documentation">>
        \o CreateCodeList(doc.code_docs)

\* workflow_index of _create_index_files
WorkflowIndex(doc) ==
    <<"# Workflow Documentation">> \o CreateListLinks(doc.workflow_docs, <<>>)

\* output_index of _create_index_files
OutputIndex(doc) ==
    <<"# Output Files Documentation">> \o CreateListLinks(doc.output_docs, <<>>)

Write(path, body) ==
    [path |-> path, body |-> body]

INDEX == <<"i","n","d","e","x",".","m","d">>

\* The writes of _create_index_files, in its order
IndexWrites(doc) ==
    <<Write(Join(DOCS_DIR, INDEX), MainIndex(doc)),
      Write(Join(WORKFLOW_DOCS_DIR, INDEX), WorkflowIndex(doc)),
      Write(Join(OUTPUT_DOCS_DIR, INDEX), OutputIndex(doc))>>

\* The four fixed documents publish_documentation writes first
FixedWrites(doc) ==
    <<Write(README, doc.main_readme),
      Write(Join(DOCS_DIR, <<"i","n","s","t","a","l","l","a","t","i","o","n",".","m","d">>), doc.installation_guide),
      Write(Join(DOCS_DIR, <<"s","c","a","l","i","n","g",".","m","d">>), doc.scaling_guide),
      Write(Join(DOCS_DIR, <<"t","r","o","u","b","l","e","s","h","o","o","t","i","n","g",".","m","d">>), doc.troubleshooting_guide)>>

\* The write of a workflow document
WorkflowWrite(item) ==
    Write(Join(WORKFLOW_DOCS_DIR, SafeFilename(item.key) \o MD), item.val)

\* The write of an output document
OutputWrite(item) ==
    Write(Join(OUTPUT_DOCS_DIR, SafeFilename(item.key) \o MD), item.val)

\* The write of a code document: the directory of the source file is kept,
\* the name of the file is made safe
CodeWrite(item) ==
    Write(Join(Join(CODE_DOCS_DIR, DirName(item.key)),
               SafeFilename(BaseName(item.key)) \o MD), item.val)

\* Every write of publish_documentation, in its order
WritePlan(doc) ==
    FixedWrites(doc)
        \o [i \in 1..Len(doc.workflow_docs) |-> WorkflowWrite(doc.workflow_docs[i])]
        \o [i \in 1..Len(doc.output_docs) |-> OutputWrite(doc.output_docs[i])]
        \o [i \in 1..Len(doc.code_docs) |-> CodeWrite(doc.code_docs[i])]
        \o IndexWrites(doc)


\* The mirroring without the descent into the subdirectories of docs
MirrorPlan_TopOnly(files) ==
    LET top == SelectSeq(files, LAMBDA f : DirName(f.path) = DOCS_DIR)
    IN  <<Write(README, FileAt(files, README).body)>>
            \o [i \in 1..Len(top) |-> Write(top[i].path, top[i].body)]

\* The copies of the mirroring: README.md, then what os.walk(docs_dir) meets,
\* each to the same relative path of the repository
MirrorPlan(files) ==
    LET walked == WalkAll(SelectSeq(files, LAMBDA f : IsUnder(f.path, DOCS_DIR)), DOCS_DIR)
    IN  <<Write(README, FileAt(files, README).body)>>
            \o [i \in 1..Len(walked) |-> Write(walked[i].path, walked[i].body)]

InitialPub ==
    [plan |-> <<>>, k |-> 1, copies |-> <<>>, c |-> 1]

\* publish_documentation is entered: the output directories are made
PubStart ==
    /\ pc = "pub_start"
    /\ documentation.returned
    /\ out' = [out EXCEPT !.exists = TRUE]
    /\ pub' = [InitialPub EXCEPT !.plan = WritePlan(documentation)]
    /\ pc' = "pub_write"
    /\ UNCHANGED <<run, args, api_key, remote, repo, llm, memo, structure, wa, oa,
                   gen, documentation>>
    /\ trace' = [trace EXCEPT !.started = Append(@, "Publisher")]

\* The next file is written under the output directory
PubWrite ==
    /\ pc = "pub_write"
    /\ pub.k <= Len(pub.plan)
    /\ out' = [out EXCEPT !.files = WriteFile(@, pub.plan[pub.k].path, pub.plan[pub.k].body)]
    /\ pub' = [pub EXCEPT !.k = @ + 1]
    /\ UNCHANGED <<pc, run, args, api_key, remote, repo, llm, memo, structure, wa,
                   oa, gen, documentation, trace>>


\* A failed write after which what was written before is removed again
PubWriteFails_RollsBack ==
    /\ pc = "pub_write"
    /\ pub.k <= Len(pub.plan)
    /\ out' = [trace.out0 EXCEPT !.exists = TRUE]
    /\ pc' = "pub_raised"
    /\ trace' = [trace EXCEPT !.raised = @ \cup {"Publisher"}]
    /\ UNCHANGED <<run, args, api_key, remote, repo, llm, memo, structure, wa, oa,
                   gen, documentation, pub>>

\* The next write raises an I/O error, in open (nothing changes) or after
\* open created or emptied the file; the except block logs the error and
\* re-raises it.  pub.k stays the number of the write that failed.
PubWriteFails ==
    /\ pc = "pub_write"
    /\ pub.k <= Len(pub.plan)
    /\ \E opened \in BOOLEAN :
          out' = IF opened
                 THEN [out EXCEPT !.files = WriteFile(@, pub.plan[pub.k].path, <<>>)]
                 ELSE out
    /\ pc' = "pub_raised"
    /\ trace' = [trace EXCEPT !.raised = @ \cup {"Publisher"}]
    /\ UNCHANGED <<run, args, api_key, remote, repo, llm, memo, structure, wa, oa,
                   gen, documentation, pub>>

\* The mirroring without the test of the repository path
MirrorWanted_Always(tree) ==
    TRUE

\* if os.path.exists(self.repo_path)
MirrorWanted(tree) ==
    tree.exists

\* Everything is written: the copies are planned when the repository path
\* exists, else publish_documentation returns
PubWritten ==
    /\ pc = "pub_write"
    /\ pub.k > Len(pub.plan)
    /\ IF MirrorWanted(repo)
       THEN /\ pub' = [pub EXCEPT !.copies = MirrorPlan(out.files)]
            /\ pc' = "pub_mirror"
            /\ trace' = trace
       ELSE /\ pub' = pub
            /\ pc' = "pub_returned"
            /\ trace' = [trace EXCEPT !.finished = @ \cup {"Publisher"}]
    /\ UNCHANGED <<run, args, api_key, remote, repo, out, llm, memo, structure, wa,
                   oa, gen, documentation>>

\* shutil.copy of the next file into the repository
PubCopy ==
    /\ pc = "pub_mirror"
    /\ pub.c <= Len(pub.copies)
    /\ repo' = [repo EXCEPT !.files = WriteFile(@, pub.copies[pub.c].path,
                                                pub.copies[pub.c].body)]
    /\ pub' = [pub EXCEPT !.c = @ + 1]
    /\ UNCHANGED <<pc, run, args, api_key, remote, out, llm, memo, structure, wa,
                   oa, gen, documentation, trace>>

\* Everything is copied: publish_documentation returns
PubDone ==
    /\ pc = "pub_mirror"
    /\ pub.c > Len(pub.copies)
    /\ pc' = "pub_returned"
    /\ UNCHANGED <<run, args, api_key, remote, repo, out, llm, memo, structure, wa,
                   oa, gen, documentation, pub>>
    /\ trace' = [trace EXCEPT !.finished = @ \cup {"Publisher"}]

(***************************************************************************)
(* Repository Acquirer: RepositoryHandler.clone_repository                 *)
(***************************************************************************)

\* if os.path.exists(self.repo_path) and self.skip_clone
UsesExisting(tree, skip_clone) ==
    tree.exists /\ skip_clone

\* shutil.rmtree(self.repo_path)
Removed ==
    [exists |-> FALSE, files |-> <<>>]

\* The repository path after rmtree and Repo.clone_from
Cloned(tree, source) ==
    [exists |-> TRUE, files |-> source.files]

\* clone_repository returns the path of the copy that is already there
CloneSkip ==
    /\ pc = "clone_start"
    /\ UsesExisting(repo, args.skip_clone)
    /\ pc' = "clone_returned"
    /\ trace' = [trace EXCEPT !.started = Append(@, "Acquirer"),
                              !.finished = @ \cup {"Acquirer"},
                              !.repo1 = repo]
    /\ UNCHANGED <<run, args, api_key, remote, repo, out, llm, memo, structure, wa,
                   oa, gen, documentation, pub>>

\* clone_repository removes what is there and clones
CloneOk ==
    /\ pc = "clone_start"
    /\ ~UsesExisting(repo, args.skip_clone)
    /\ remote.exists
    /\ repo' = Cloned(repo, remote)
    /\ pc' = "clone_returned"
    /\ trace' = [trace EXCEPT !.started = Append(@, "Acquirer"),
                              !.finished = @ \cup {"Acquirer"},
                              !.fetched = TRUE,
                              !.repo1 = Cloned(repo, remote)]
    /\ UNCHANGED <<run, args, api_key, remote, out, llm, memo, structure, wa, oa,
                   gen, documentation, pub>>

\* Repo.clone_from raises after what was there was removed: the error is
\* logged and re-raised
CloneFails ==
    /\ pc = "clone_start"
    /\ ~UsesExisting(repo, args.skip_clone)
    /\ repo' = Removed
    /\ pc' = "clone_raised"
    /\ trace' = [trace EXCEPT !.started = Append(@, "Acquirer"),
                              !.raised = @ \cup {"Acquirer"},
                              !.repo1 = Removed]
    /\ UNCHANGED <<run, args, api_key, remote, out, llm, memo, structure, wa, oa,
                   gen, documentation, pub>>

NoStructure == [analysed |-> FALSE]

\* analyze_repository_structure
Classify ==
    /\ pc = "classify_start"
    /\ structure' = AnalyzeRepositoryStructure(ExtractRepoName(args.repo_url), repo)
    /\ pc' = "classify_returned"
    /\ trace' = [trace EXCEPT !.started = Append(@, "Classifier"),
                              !.finished = @ \cup {"Classifier"}]
    /\ UNCHANGED <<run, args, api_key, remote, repo, out, llm, memo, wa, oa, gen,
                   documentation, pub>>

(***************************************************************************)
(* OutputAnalyzer.analyze_outputs: src/output_analyzer.py is not part of   *)
(* the sources; the specification treats the output analysis as an opaque  *)
(* input keyed by output file type                                         *)
(***************************************************************************)

NoOutputAnalysis == [returned |-> FALSE]

OutputFile(file_type, name) ==
    [file_type |-> file_type, name |-> name]

OutputAnalyses ==
    {[returned |-> TRUE, files |-> <<>>],
     [returned |-> TRUE, files |-> <<OutputFile(<<"t","e","x","t","/","c","s","v">>, <<"o","u","t",".","c","s","v">>)>>]}

\* A repeatable analysis gives what it gave before
AllowedAnalyses ==
    IF memo.on /\ memo.oa # {} THEN memo.oa ELSE OutputAnalyses

OaReturns ==
    /\ pc = "oa_start"
    /\ \E a \in AllowedAnalyses :
        /\ oa' = a
        /\ memo' = IF memo.on THEN [memo EXCEPT !.oa = {a}] ELSE memo
    /\ pc' = "oa_returned"
    /\ trace' = [trace EXCEPT !.started = Append(@, "OutputAnalyzer"),
                              !.finished = @ \cup {"OutputAnalyzer"}]
    /\ UNCHANGED <<run, args, api_key, remote, repo, out, llm, structure, wa, gen,
                   documentation, pub>>

OaRaises ==
    /\ pc = "oa_start"
    /\ pc' = "oa_raised"
    /\ trace' = [trace EXCEPT !.started = Append(@, "OutputAnalyzer"),
                              !.raised = @ \cup {"OutputAnalyzer"}]
    /\ UNCHANGED <<run, args, api_key, remote, repo, out, llm, memo, structure, wa,
                   oa, gen, documentation, pub>>

(***************************************************************************)
(* main (src/main.py)                                                      *)
(***************************************************************************)

\* An optional string: None, or a string that may be empty
NoKey == [set |-> FALSE, value |-> <<>>]

Key(value) == [set |-> TRUE, value |-> value]

\* The truth value of an optional string
Truthy(k) ==
    k.set /\ k.value # <<>>

\* args.api_key or os.getenv("OPENAI_API_KEY")
ApiKey(a) ==
    IF Truthy(a.api_key) THEN a.api_key ELSE a.env_key

\* What the stages of the current run have done.  out0 and repo0 are the
\* trees as main found them, repo1 the repository path as the Acquirer left it.
InitialTrace(repo_tree, out_tree) ==
    [started |-> <<>>, finished |-> {}, raised |-> {}, fetched |-> FALSE,
     gen_error |-> "none", out0 |-> out_tree, repo0 |-> repo_tree,
     repo1 |-> repo_tree]


\* main without the return of the credential check
MainStart_NoCheck ==
    /\ pc = "main_start"
    /\ api_key' = ApiKey(args)
    /\ pc' = "clone_start"
    /\ UNCHANGED <<run, args, remote, repo, out, llm, memo, structure, wa, oa, gen,
                   documentation, pub, trace>>

\* main reads the credential: without one it logs an error and returns
MainStart ==
    /\ pc = "main_start"
    /\ api_key' = ApiKey(args)
    /\ pc' = IF Truthy(ApiKey(args)) THEN "clone_start" ELSE "exit"
    /\ UNCHANGED <<run, args, remote, repo, out, llm, memo, structure, wa, oa, gen,
                   documentation, pub, trace>>


\* The try block with the workflow analysis ahead of the classification
NextCall_Swapped(p) ==
    CASE p = "clone_returned" -> "wa_start"
      [] p = "wa_returned" -> "classify_start"
      [] p = "classify_returned" -> "oa_start"
      [] p = "oa_returned" -> "gen_start"
      [] p = "gen_returned" -> "pub_start"
      [] p = "pub_returned" -> "exit"

\* The statement of main's try block that follows a call that returned
NextCall(p) ==
    CASE p = "clone_returned" -> "classify_start"
      [] p = "classify_returned" -> "wa_start"
      [] p = "wa_returned" -> "oa_start"
      [] p = "oa_returned" -> "gen_start"
      [] p = "gen_returned" -> "pub_start"
      [] p = "pub_returned" -> "exit"

ReturnedPcs ==
    {"clone_returned", "classify_returned", "wa_returned", "oa_returned",
     "gen_returned", "pub_returned"}

RaisedPcs ==
    {"clone_raised", "wa_raised", "oa_raised", "gen_raised"}

\* A call of the try block returned: main goes on to the next statement
MainProceeds ==
    /\ pc \in ReturnedPcs
    /\ pc' = NextCall(pc)
    /\ UNCHANGED <<run, args, api_key, remote, repo, out, llm, memo, structure, wa,
                   oa, gen, documentation, pub, trace>>

\* except Exception: the error is logged and main returns
MainExcept ==
    /\ pc \in RaisedPcs
    /\ pc' = "exit"
    /\ llm' = IdleLLM
    /\ UNCHANGED <<run, args, api_key, remote, repo, out, memo, structure, wa, oa,
                   gen, documentation, pub, trace>>

NoRun == [ran |-> FALSE]

MaxRuns == 2

\* The program is started again for the same repository and output directory,
\* with or without --skip-clone; what the first run left on disk stays
Rerun ==
    /\ pc = "exit"
    /\ run.n < MaxRuns
    /\ run' = [n |-> run.n + 1,
               first |-> [ran |-> TRUE, out |-> out, trace |-> trace]]
    /\ \E s \in BOOLEAN : args' = [args EXCEPT !.skip_clone = s]
    /\ pc' = "main_start"
    /\ api_key' = NoKey
    /\ llm' = IdleLLM
    /\ structure' = NoStructure
    /\ wa' = InitialWa
    /\ oa' = NoOutputAnalysis
    /\ gen' = InitialGen
    /\ documentation' = NoDocumentation
    /\ pub' = InitialPub
    /\ trace' = InitialTrace(repo, out)
    /\ UNCHANGED <<remote, repo, out, memo>>

(***************************************************************************)
(* Inputs                                                                  *)
(***************************************************************************)

REPO_URL == <<"h","/","t","o","o","l",".","g","i","t">>

MAIN_PY == File(<<"m","a","i","n",".","p","y">>, 10, TRUE, <<"import sys">>)

UTIL_PY == File(<<"l","i","b","/","u","t","i","l",".","p","y">>, 20, TRUE, <<"def f">>)

RUN_SH == File(<<"b","i","n","/","r","u","n",".","s","h">>, 30, TRUE, <<"python main.py">>)

OLD_README == File(<<"R","E","A","D","M","E",".","m","d">>, 40, TRUE, <<"old readme">>)

OLD_DOC == File(<<"d","o","c","s","/","o","l","d",".","m","d">>, 50, TRUE, <<"old doc">>)

Tree(files) ==
    [exists |-> TRUE, files |-> files]

CLI_KEY == Key(<<"c","l","i">>)

ENV_KEY == Key(<<"e","n","v">>)

\* The command lines and environments main is started with
ArgSets ==
    [repo_url : {REPO_URL}, api_key : {NoKey, Key(<<>>), CLI_KEY},
     env_key : {NoKey, ENV_KEY}, skip_clone : BOOLEAN]

KeyedArgSets ==
    [repo_url : {REPO_URL}, api_key : {CLI_KEY}, env_key : {NoKey},
     skip_clone : BOOLEAN]

NoMemo == [on |-> FALSE, seen |-> {}, oa |-> {}]

StubMemo == [on |-> TRUE, seen |-> {}, oa |-> {}]

FirstRun == [n |-> 1, first |-> NoRun]

(***************************************************************************)
(* Spec: one run of main                                                   *)
(***************************************************************************)

Remotes ==
    {Tree(<<MAIN_PY, OLD_README>>)}

Locals ==
    {Removed, Tree(<<OLD_README, OLD_DOC>>)}

Outs ==
    {Removed, Tree(<<OLD_DOC>>)}

Init ==
    /\ pc = "main_start"
    /\ run = FirstRun
    /\ args \in ArgSets
    /\ api_key = NoKey
    /\ remote \in Remotes
    /\ repo \in Locals
    /\ out \in Outs
    /\ llm = IdleLLM
    /\ memo = NoMemo
    /\ structure = NoStructure
    /\ wa = InitialWa
    /\ oa = NoOutputAnalysis
    /\ gen = InitialGen
    /\ documentation = NoDocumentation
    /\ pub = InitialPub
    /\ trace = InitialTrace(repo, out)

Query ==
    \/ EndpointReturns
    \/ EndpointRaises
    \/ SleepEnds

Infer ==
    \/ WaStart
    \/ WaEntryQuery
    \/ WaEntryReply
    \/ WaEntryDone
    \/ WaWorkflowQuery
    \/ WaWorkflowReply
    \/ WaWorkflowDone
    \/ WaScalingQuery
    \/ WaScalingReply
    \/ WaBottleneckQuery
    \/ WaBottleneckReply
    \/ WaRaise

Generate ==
    \/ GenStart
    \/ GenQuery
    \/ GenReply
    \/ GenNext
    \/ GenReturn
    \/ GenKeyError
    \/ GenRaise

Publish ==
    \/ PubStart
    \/ PubWrite
    \/ PubWritten
    \/ PubCopy
    \/ PubDone

Next ==
    \/ MainStart
    \/ CloneSkip
    \/ CloneOk
    \/ CloneFails
    \/ Classify
    \/ Infer
    \/ OaReturns
    \/ OaRaises
    \/ Generate
    \/ Publish
    \/ Query
    \/ MainProceeds
    \/ MainExcept

Spec == Init /\ [][Next]_vars

(***************************************************************************)
(* SpecTwice: main is run twice against a repeatable endpoint              *)
(***************************************************************************)

InitTwice ==
    /\ pc = "main_start"
    /\ run = FirstRun
    /\ args \in KeyedArgSets
    /\ api_key = NoKey
    /\ remote = Tree(<<MAIN_PY>>)
    /\ repo = Removed
    /\ out = Removed
    /\ llm = IdleLLM
    /\ memo = StubMemo
    /\ structure = NoStructure
    /\ wa = InitialWa
    /\ oa = NoOutputAnalysis
    /\ gen = InitialGen
    /\ documentation = NoDocumentation
    /\ pub = InitialPub
    /\ trace = InitialTrace(repo, out)

NextTwice ==
    \/ Next
    \/ Rerun

SpecTwice == InitTwice /\ [][NextTwice]_vars

(***************************************************************************)
(* SpecQuery: one call of LLMAgent.query                                   *)
(***************************************************************************)

QueryPrompts ==
    {EntryPrompt([path |-> MAIN_PY.path, content |-> MAIN_PY.body]),
     WorkflowPrompt([path |-> MAIN_PY.path, content |-> MAIN_PY.body],
                    [path |-> MAIN_PY.path, description |-> <<"starts the tool">>]),
     ScalingPrompt(<<>>), BottleneckPrompt(<<>>), <<"readme!">>, <<"installation!">>}

InitQuery ==
    /\ pc = "query"
    /\ run = FirstRun
    /\ args \in KeyedArgSets
    /\ api_key = CLI_KEY
    /\ remote = Removed
    /\ repo = Removed
    /\ out = Removed
    /\ \E p \in QueryPrompts : llm = StartQuery(p)
    /\ memo = NoMemo
    /\ structure = NoStructure
    /\ wa = InitialWa
    /\ oa = NoOutputAnalysis
    /\ gen = InitialGen
    /\ documentation = NoDocumentation
    /\ pub = InitialPub
    /\ trace = InitialTrace(repo, out)

SpecQuery == InitQuery /\ [][Query]_vars

(***************************************************************************)
(* SpecInfer: one call of WorkflowAnalyzer.analyze_workflow                *)
(***************************************************************************)

InferRepos ==
    {Removed, Tree(<<OLD_README>>), Tree(<<MAIN_PY, OLD_README>>), Tree(<<UTIL_PY>>),
     Tree(<<MAIN_PY, RUN_SH, UTIL_PY>>)}

InitInfer ==
    /\ pc = "wa_start"
    /\ run = FirstRun
    /\ args \in KeyedArgSets
    /\ api_key = CLI_KEY
    /\ remote = Removed
    /\ repo \in InferRepos
    /\ out = Removed
    /\ llm = IdleLLM
    /\ memo = NoMemo
    /\ structure = NoStructure
    /\ wa = InitialWa
    /\ oa = NoOutputAnalysis
    /\ gen = InitialGen
    /\ documentation = NoDocumentation
    /\ pub = InitialPub
    /\ trace = InitialTrace(repo, out)

NextInfer ==
    \/ Infer
    \/ Query

SpecInfer == InitInfer /\ [][NextInfer]_vars

(***************************************************************************)
(* SpecClassify: one call of analyze_repository_structure                  *)
(***************************************************************************)

\* The number of files of a repository to classify
MaxClassifyFiles == 4

ClassifyPaths ==
    <<<<"a",".","p","y">>, <<".","g","i","t","/","c","o","n","f","i","g">>, <<"l","i","b","/",".","g","i","t","/","x",".","p","y">>, <<"l","i","b","/","b",".","R">>, <<".","g","i","t","i","g","n","o","r","e">>, <<"l","i","b","/","c",".","m","d">>>>

\* What a file is like: absent, or of a size around the limit, decoding or not
ClassifyKinds ==
    {[present |-> FALSE, size |-> 0, text |-> TRUE]}
        \cup [present : {TRUE}, size : {999999, 1000000, 1000001}, text : BOOLEAN]

ClassifySlots ==
    1..(IF MaxClassifyFiles < Len(ClassifyPaths) THEN MaxClassifyFiles
        ELSE Len(ClassifyPaths))

ClassifyTree(kinds) ==
    LET all == [i \in ClassifySlots |->
                    [present |-> kinds[i].present,
                     file |-> File(ClassifyPaths[i], kinds[i].size, kinds[i].text,
                                   <<"content">>)]]
        kept == SelectSeq(all, LAMBDA x : x.present)
    IN  Tree([i \in 1..Len(kept) |-> kept[i].file])

ClassifyRepos ==
    {ClassifyTree(kinds) : kinds \in [ClassifySlots -> ClassifyKinds]}

InitClassify ==
    /\ pc = "classify_start"
    /\ run = FirstRun
    /\ args \in KeyedArgSets
    /\ api_key = CLI_KEY
    /\ remote = Removed
    /\ repo \in ClassifyRepos
    /\ out = Removed
    /\ llm = IdleLLM
    /\ memo = NoMemo
    /\ structure = NoStructure
    /\ wa = InitialWa
    /\ oa = NoOutputAnalysis
    /\ gen = InitialGen
    /\ documentation = NoDocumentation
    /\ pub = InitialPub
    /\ trace = InitialTrace(repo, out)

SpecClassify == InitClassify /\ [][Classify]_vars

(***************************************************************************)
(* SpecPublish: one call of publish_documentation                          *)
(***************************************************************************)

Item(key, val) ==
    [key |-> key, val |-> val]

WorkflowDocSets ==
    {<<>>,
     <<Item(<<"D","a","t","a"," ","I","m","p","o","r","t">>, <<"import doc">>)>>,
     <<Item(<<"D","a","t","a"," ","I","m","p","o","r","t">>, <<"import doc">>), Item(<<"D","a","t","a","_","I","m","p","o","r","t">>, <<"other doc">>)>>,
     <<Item(<<"a","/","b",":","c">>, <<"odd doc">>)>>,
     <<Item(<<"i","n","d","e","x">>, <<"index doc">>)>>}

OutputDocSets ==
    {<<>>, <<Item(<<"t","e","x","t","/","c","s","v">>, <<"csv doc">>)>>}

CodeDocSets ==
    {<<>>,
     <<Item(<<"m","a","i","n",".","p","y">>, <<"main doc">>)>>,
     <<Item(<<"m","a","i","n",".","p","y">>, <<"main doc">>), Item(<<"l","i","b","/","u","t","i","l",".","p","y">>, <<"util doc">>),
       Item(<<"r","o","o","t","/","x"," ","y",".","p","y">>, <<"x y doc">>)>>}

Bundles ==
    {Bundle([InitialGen EXCEPT !.main_readme = <<"new readme">>,
                               !.installation_guide = <<"install">>,
                               !.scaling_guide = <<"scaling">>,
                               !.troubleshooting_guide = <<"troubleshooting">>,
                               !.workflow_docs = w, !.output_docs = o,
                               !.code_docs = c]) :
        w \in WorkflowDocSets, o \in OutputDocSets, c \in CodeDocSets}

OLD_OUT_DOC == File(<<"d","o","c","s","/","w","o","r","k","f","l","o","w","s","/","o","l","d",".","m","d">>, 60, TRUE, <<"old workflow doc">>)

InitPublish ==
    /\ pc = "pub_start"
    /\ run = FirstRun
    /\ args \in KeyedArgSets
    /\ api_key = CLI_KEY
    /\ remote = Removed
    /\ repo \in {Removed, Tree(<<MAIN_PY>>), Tree(<<OLD_README, OLD_DOC>>)}
    /\ out \in {Removed, Tree(<<OLD_DOC, OLD_OUT_DOC>>)}
    /\ llm = IdleLLM
    /\ memo = NoMemo
    /\ structure = NoStructure
    /\ wa = InitialWa
    /\ oa = NoOutputAnalysis
    /\ gen = InitialGen
    /\ documentation \in Bundles
    /\ pub = InitialPub
    /\ trace = InitialTrace(repo, out)

SpecPublish == InitPublish /\ [][Publish]_vars

\* The Publisher on a file system whose writes may fail
PublishFaulty ==
    \/ Publish
    \/ PubWriteFails

SpecPublishFaulty == InitPublish /\ [][PublishFaulty]_vars

(***************************************************************************)
(* Properties                                                              *)
(***************************************************************************)

Range(s) ==
    {s[i] : i \in 1..Len(s)}

\* C1: in every call of query the endpoint is called at most 3 times; query
\* returns only the text of a successful attempt, which is its latest one, and
\* makes an(other) attempt only while no attempt has succeeded; it raises only
\* after 3 failed attempts, and then the error of the third attempt; and after
\* 3 failed attempts it has raised.
C1_RetryContract ==
    /\ llm.calls <= 3
    /\ llm.state = "returned" =>
          llm.last.called /\ llm.last.ok /\ llm.result = llm.last.val
    /\ llm.state \in {"attempt", "sleep"} /\ llm.last.called => ~llm.last.ok
    /\ llm.state = "raised" =>
          llm.calls = 3 /\ ~llm.last.ok /\ llm.err = llm.last.val /\ llm.err.at = 3
    /\ llm.calls = 3 /\ ~llm.last.ok => llm.state = "raised"

\* Three attempts failed and the error of the third was raised
C1_Witness ==
    /\ llm.state = "raised"
    /\ llm.calls = 3
    /\ llm.err.at = 3
    /\ Len(llm.sleeps) = 2

\* C2 as stated: once a query of the documentation generation has failed, no
\* bundle is returned, the Publisher is not invoked, and the output directory
\* and the repository path are as they were when the run began.
C2_NothingTouched ==
    trace.gen_error = "query" =>
        /\ ~documentation.returned
        /\ "Publisher" \notin Range(trace.started)
        /\ out = trace.out0
        /\ repo = trace.repo0

\* C2 amended: once a query of the documentation generation has failed, no
\* bundle is returned, the Publisher is not invoked, the output directory is
\* as it was when the run began, and the repository path is as the Acquirer
\* left it (the Acquirer may have removed and re-fetched it before).
C2_NoBundleNoPublish ==
    trace.gen_error = "query" =>
        /\ ~documentation.returned
        /\ "Publisher" \notin Range(trace.started)
        /\ out = trace.out0
        /\ repo = trace.repo1

\* The query of a code document failed in a run that had fetched the repository
C2_Witness ==
    /\ pc = "exit"
    /\ trace.gen_error = "query"
    /\ GenSteps[gen.s] = "code"
    /\ trace.fetched
    /\ trace.out0.exists

\* C3: a candidate whose reply is not valid JSON has no entry in the
\* entry-point list; when the entry-point analysis is over every candidate has
\* been queried; and analyze_workflow raises only when a query has raised.
C3_UnparsedSkipped ==
    /\ \A i \in 1..Len(wa.unparsed) : \A j \in 1..Len(wa.entry_points) :
          wa.entry_points[j].path # wa.unparsed[i]
    /\ pc \in {"wa_workflows", "wa_scaling", "wa_bottlenecks", "wa_returned"} =>
          wa.queries.candidate = Len(wa.potential)
    /\ pc = "wa_raised" => llm.state = "raised"

\* The reply for the first of two candidates did not parse, the second was
\* accepted, and analyze_workflow returned
C3_Witness ==
    /\ pc = "wa_returned"
    /\ Len(wa.potential) = 2
    /\ wa.unparsed = <<wa.potential[1].path>>
    /\ Len(wa.entry_points) = 1
    /\ wa.entry_points[1].path = wa.potential[2].path

\* C4: without a credential on the command line and in the environment main
\* starts no stage, issues no query and leaves the repository path and the
\* output directory as they were; the credential used is that of the command
\* line when one is supplied, else that of the environment.
C4_Credential ==
    /\ ~Truthy(args.api_key) /\ ~Truthy(args.env_key) =>
          /\ pc \in {"main_start", "exit"}
          /\ trace.started = <<>>
          /\ llm = IdleLLM
          /\ structure = NoStructure
          /\ repo = trace.repo0
          /\ out = trace.out0
    /\ pc # "main_start" /\ Truthy(args.api_key) => api_key = args.api_key
    /\ pc # "main_start" /\ ~Truthy(args.api_key) => api_key = args.env_key

\* main returned without a credential (an empty --api-key, no environment
\* value), a local copy of the repository being there
C4_Witness ==
    /\ pc = "exit"
    /\ args.api_key.set
    /\ ~Truthy(args.api_key)
    /\ ~Truthy(args.env_key)
    /\ args.skip_clone = FALSE
    /\ trace.repo0.exists

StageOrder ==
    <<"Acquirer", "Classifier", "Inferrer", "Summarizer", "Assembler", "Publisher">>

\* The stages of StageOrder that have started, in the order of their start
StagesStarted ==
    SelectSeq(trace.started, LAMBDA s : s \in Range(StageOrder))

\* C5: the stages that have started are the first ones of the fixed order, in
\* that order and each once; every stage before the latest has completed; and
\* when a stage has raised it is the latest that started, so that none ran
\* after it.
C5_StageOrder ==
    /\ Len(StagesStarted) <= Len(StageOrder)
    /\ \A i \in 1..Len(StagesStarted) : StagesStarted[i] = StageOrder[i]
    /\ \A i \in 1..(Len(trace.started) - 1) : trace.started[i] \in trace.finished
    /\ trace.finished \cap trace.raised = {}
    /\ trace.finished \cup trace.raised \subseteq Range(trace.started)
    /\ trace.raised # {} => trace.raised = {trace.started[Len(trace.started)]}

\* All six stages ran, and the Publisher completed
C5_Witness ==
    /\ pc = "exit"
    /\ StagesStarted = StageOrder
    /\ "Publisher" \in trace.finished
    /\ Len(documentation.workflow_docs) = 1

\* The counts of the per-file queries of a finished analysis: one per
\* candidate, one more per accepted entry point
PerFileQueries ==
    /\ wa.queries.candidate = Len(wa.potential)
    /\ wa.queries.workflow = Len(wa.entry_points)

\* C6 as stated: analyze_workflow that returned has issued one query per
\* candidate, one more per accepted entry point and exactly two aggregate
\* queries, however many workflows were parsed.
C6_TwoAggregates ==
    pc = "wa_returned" => PerFileQueries /\ wa.queries.aggregate = 2

\* C6 amended: analyze_workflow that returned has issued one query per
\* candidate and one more per accepted entry point; when at least one workflow
\* was parsed it has issued exactly two aggregate queries, after all per-file
\* queries, and an aggregate whose reply did not parse is the empty default;
\* when no workflow was parsed it has issued no aggregate query and both
\* aggregates are the empty defaults.
C6_AggregateQueries ==
    /\ wa.queries.aggregate > 0 =>
          PerFileQueries /\ wa.i > Len(wa.potential) /\ wa.j > Len(wa.entry_points)
    /\ pc = "wa_returned" =>
          /\ PerFileQueries
          /\ wa.queries.aggregate = IF wa.workflows = <<>> THEN 0 ELSE 2
          /\ Len(wa.replies) = wa.queries.aggregate
          /\ wa.workflows = <<>> =>
                /\ wa.result.scaling_limitations = <<"{}">>
                /\ wa.result.bottlenecks = <<"[]">>
          /\ wa.workflows # <<>> =>
                /\ wa.replies[1] = "notjson" => wa.result.scaling_limitations = <<"{}">>
                /\ wa.replies[2] = "notjson" => wa.result.bottlenecks = <<"[]">>

\* An entry point was accepted, no workflow was parsed for it, and
\* analyze_workflow returned without an aggregate query
C6_Witness ==
    /\ pc = "wa_returned"
    /\ Len(wa.potential) = 2
    /\ Len(wa.entry_points) = 1
    /\ wa.workflows = <<>>
    /\ wa.queries.aggregate = 0

\* The file of the output tree at a path holds a text
Holds(tree, path, body) ==
    HasFile(tree.files, path) /\ FileAt(tree.files, path).body = body

\* The output tree of a bundle is complete: the readme, the three guides, a
\* file per workflow, output type and code file, and the three index pages
CompleteTree(tree, doc) ==
    /\ Holds(tree, <<"R","E","A","D","M","E",".","m","d">>, doc.main_readme)
    /\ Holds(tree, <<"d","o","c","s","/","i","n","s","t","a","l","l","a","t","i","o","n",".","m","d">>, doc.installation_guide)
    /\ Holds(tree, <<"d","o","c","s","/","s","c","a","l","i","n","g",".","m","d">>, doc.scaling_guide)
    /\ Holds(tree, <<"d","o","c","s","/","t","r","o","u","b","l","e","s","h","o","o","t","i","n","g",".","m","d">>, doc.troubleshooting_guide)
    /\ \A i \in 1..Len(doc.workflow_docs) :
          HasFile(tree.files, <<"d","o","c","s","/","w","o","r","k","f","l","o","w","s","/">> \o SafeFilename(doc.workflow_docs[i].key)
                                \o <<".","m","d">>)
    /\ \A i \in 1..Len(doc.output_docs) :
          HasFile(tree.files, <<"d","o","c","s","/","o","u","t","p","u","t","s","/">> \o SafeFilename(doc.output_docs[i].key)
                                \o <<".","m","d">>)
    /\ \A i \in 1..Len(doc.code_docs) :
          LET path == doc.code_docs[i].key
              dir  == IF DirName(path) = <<>> THEN <<>> ELSE DirName(path) \o <<"/">>
          IN  Holds(tree, <<"d","o","c","s","/","c","o","d","e","/">> \o dir \o SafeFilename(BaseName(path)) \o <<".","m","d">>,
                    doc.code_docs[i].val)
    /\ HasFile(tree.files, <<"d","o","c","s","/","i","n","d","e","x",".","m","d">>)
    /\ HasFile(tree.files, <<"d","o","c","s","/","w","o","r","k","f","l","o","w","s","/","i","n","d","e","x",".","m","d">>)
    /\ HasFile(tree.files, <<"d","o","c","s","/","o","u","t","p","u","t","s","/","i","n","d","e","x",".","m","d">>)

\* C7: when the repository path does not exist, publish_documentation goes
\* from its writes to its return (no mirroring, no raise), leaves the
\* repository path as it was, and has written the complete output tree when
\* it returns.
C7_NoRepository ==
    ~trace.repo0.exists =>
        /\ pc \in {"pub_start", "pub_write", "pub_returned"}
        /\ repo = trace.repo0
        /\ pc = "pub_returned" => CompleteTree(out, documentation)

\* publish_documentation returned without a repository path, for a bundle with
\* workflow, output and code documents
C7_Witness ==
    /\ pc = "pub_returned"
    /\ ~trace.repo0.exists
    /\ Len(documentation.workflow_docs) = 2
    /\ Len(documentation.output_docs) = 1
    /\ Len(documentation.code_docs) = 3
    /\ trace.out0.exists

\* C8: when the repository path exists and publish_documentation has
\* returned, every file under docs of the output directory has a copy of the
\* same content at the same path under docs of the repository, and README.md
\* of the repository is the generated readme; and the repository is touched
\* only when every write of the output tree, index pages included, is done.
C8_Mirror ==
    /\ pc = "pub_returned" /\ trace.repo0.exists =>
          /\ \A i \in 1..Len(out.files) :
                IsUnder(out.files[i].path, <<"d","o","c","s">>) =>
                    Holds(repo, out.files[i].path, out.files[i].body)
          /\ Holds(repo, <<"R","E","A","D","M","E",".","m","d">>, documentation.main_readme)
    /\ pc = "pub_mirror" \/ repo # trace.repo0 =>
          /\ pub.k > Len(pub.plan)
          /\ CompleteTree(out, documentation)

\* publish_documentation returned after it replaced a README.md of the
\* repository and mirrored nested documents and one that was there before
C8_Witness ==
    /\ pc = "pub_returned"
    /\ Holds(trace.repo0, <<"R","E","A","D","M","E",".","m","d">>, OLD_README.body)
    /\ Holds(repo, <<"R","E","A","D","M","E",".","m","d">>, <<"new readme">>)
    /\ Holds(repo, OLD_OUT_DOC.path, OLD_OUT_DOC.body)
    /\ Len(documentation.code_docs) = 3

\* The files of a tree and what they hold
TreeSet(tree) ==
    {[path |-> tree.files[i].path, body |-> tree.files[i].body] : i \in 1..Len(tree.files)}

\* Both runs of main published, the first after it fetched the repository
BothPublished ==
    /\ pc = "exit"
    /\ run.n = 2
    /\ "Publisher" \in run.first.trace.finished
    /\ run.first.trace.fetched
    /\ "Publisher" \in trace.finished

\* C9: when main has run twice with a repeatable endpoint and both runs
\* published, the output tree after the second run is the output tree after
\* the first, whether the second run fetched the repository again or not.
C9_IdenticalTrees ==
    BothPublished => TreeSet(out) = TreeSet(run.first.out)

\* The part of C9 that holds: the same when the second run fetched the
\* repository again
C9_IdenticalWhenFetched ==
    BothPublished /\ trace.fetched => TreeSet(out) = TreeSet(run.first.out)

\* The path has no directory named .git on its way
OutsideGit(path) ==
    \A i \in 1..Len(Split(DirName(path), SEP)) : Split(DirName(path), SEP)[i] # <<".","g","i","t">>

\* C10: after analyze_repository_structure the paths of the file list are,
\* each once, those of the files of the repository outside every .git
\* directory that decode and are of at most 1,000,000 bytes.
C10_FileList ==
    pc = "classify_returned" =>
        LET listed == [i \in 1..Len(structure.files) |-> structure.files[i].path]
            wanted == {i \in 1..Len(repo.files) :
                          /\ OutsideGit(repo.files[i].path)
                          /\ repo.files[i].text
                          /\ repo.files[i].size <= 1000000}
        IN  /\ Range(listed) = {repo.files[i].path : i \in wanted}
            /\ \A i, j \in 1..Len(listed) : listed[i] = listed[j] => i = j

\* A repository was classified that has a file of exactly 1,000,000 bytes
\* (listed), a larger one, one that does not decode and one under .git
C10_Witness ==
    /\ pc = "classify_returned"
    /\ \E i \in 1..Len(repo.files) :
          /\ repo.files[i].size = 1000000
          /\ repo.files[i].text
          /\ \E j \in 1..Len(structure.files) : structure.files[j].path = repo.files[i].path
    /\ \E i \in 1..Len(repo.files) :
          repo.files[i].size = 1000001 /\ repo.files[i].text /\ OutsideGit(repo.files[i].path)
    /\ \E i \in 1..Len(repo.files) : ~repo.files[i].text /\ repo.files[i].size = 999999
    /\ \E i \in 1..Len(repo.files) :
          ~OutsideGit(repo.files[i].path) /\ repo.files[i].text
            /\ repo.files[i].size = 999999

(***************************************************************************)
(* The Structure Classifier alone, on repositories that hold files named   *)
(* like entry points, DESCRIPTION manifests, or nothing at all             *)
(***************************************************************************)

\* The most files of a repository of entry-point candidates
MaxEntryFiles == 2

EntryPaths ==
    <<<<"m","a","i","n",".","p","y">>, <<"d","o","m","a","i","n",".","p","y">>, <<"l","i","b","/","r","u","n",".","p","y">>, <<"a","p","p",".","p","y">>, <<"s","e","t","u","p",".","p","y">>, <<"u","t","i","l",".","p","y">>,
      <<"b","i","n","/","t","o","o","l",".","s","h">>, <<"b","i","n","/","t","o","o","l",".","j","s">>, <<"b","i","n","/","n","o","t","e","s",".","m","d">>, <<"b","i","n","/","s","u","b","/","f","i","t",".","R">>, <<"l","i","b","/","b","i","n","/","x",".","p","y">>>>

EntryRepos ==
    {Tree([i \in 1..Len(SelectSeq(EntryPaths, LAMBDA p : p \in chosen)) |->
              File(SelectSeq(EntryPaths, LAMBDA p : p \in chosen)[i], 10, TRUE, <<"content">>)]) :
        chosen \in {c \in SUBSET Range(EntryPaths) : Cardinality(c) <= MaxEntryFiles}}

(***************************************************************************)
(* DESCRIPTION manifests, rendered from their fields                       *)
(***************************************************************************)

ImportNames ==
    <<<<"d","p","l","y","r">>, <<"t","i","d","y","r">>>>

\* A manifest: whether a Package field comes first, whether there is an
\* Imports field, how many entries it has, whether they share one line or
\* have a line each, and what follows: nothing, another field on the next
\* line, or another field after a blank line
Manifests ==
    [package : BOOLEAN, imports : BOOLEAN, n : 1..Len(ImportNames),
     layout : {"one_line", "line_each"}, tail : {"none", "field", "paragraph"}]

\* The entries of the Imports field of a manifest
ImportsOf(m) ==
    IF m.imports THEN SubSeq(ImportNames, 1, m.n) ELSE <<>>

RECURSIVE JoinWith(_, _)
JoinWith(names, sep) ==
    IF names = <<>> THEN <<>>
    ELSE IF Len(names) = 1 THEN names[1]
    ELSE names[1] \o sep \o JoinWith(Tail(names), sep)

\* The text of the DESCRIPTION file of a manifest
Render(m) ==
    (IF m.package THEN <<"P","a","c","k","a","g","e",":"," ","t","o","o","l","\n">> ELSE <<>>)
    \o (IF ~m.imports THEN <<>>
        ELSE IF m.layout = "one_line"
        THEN <<"I","m","p","o","r","t","s",":"," ">> \o JoinWith(ImportsOf(m), <<","," ">>) \o <<"\n">>
        ELSE <<"I","m","p","o","r","t","s",":","\n"," "," "," "," ">> \o JoinWith(ImportsOf(m), <<",","\n"," "," "," "," ">>) \o <<"\n">>)
    \o (IF m.tail = "field" THEN <<"S","u","g","g","e","s","t","s",":"," ","k","n","i","t","r","\n">>
        ELSE IF m.tail = "paragraph" THEN <<"\n","S","u","g","g","e","s","t","s",":"," ","k","n","i","t","r","\n">>
        ELSE <<>>)

ManifestRepos ==
    {Tree(<<File(<<"D","E","S","C","R","I","P","T","I","O","N">>, Len(Render(m)), TRUE, Render(m))>>) : m \in Manifests}

InitDescribe ==
    /\ pc = "classify_start"
    /\ run = FirstRun
    /\ args \in KeyedArgSets
    /\ api_key = CLI_KEY
    /\ remote = Removed
    /\ repo \in EntryRepos \cup ManifestRepos \cup {Removed}
    /\ out = Removed
    /\ llm = IdleLLM
    /\ memo = NoMemo
    /\ structure = NoStructure
    /\ wa = InitialWa
    /\ oa = NoOutputAnalysis
    /\ gen = InitialGen
    /\ documentation = NoDocumentation
    /\ pub = InitialPub
    /\ trace = InitialTrace(repo, out)

SpecDescribe == InitDescribe /\ [][Classify]_vars

\* The file name of the path is one of the four conventional names
ConventionalName(path) ==
    BaseName(path) \in {<<"m","a","i","n",".","p","y">>, <<"r","u","n",".","p","y">>, <<"a","p","p",".","p","y">>, <<"s","e","t","u","p",".","p","y">>}

\* The path ends with one of the four conventional names
ConventionalEnd(path) ==
    \E k \in 1..Len(path) :
        SubSeq(path, k, Len(path)) \in {<<"m","a","i","n",".","p","y">>, <<"r","u","n",".","p","y">>, <<"a","p","p",".","p","y">>, <<"s","e","t","u","p",".","p","y">>}

\* The path has a directory named bin on its way
UnderSomeBin(path) ==
    \E i \in 1..Len(Split(DirName(path), SEP)) : Split(DirName(path), SEP)[i] = <<"b","i","n">>

\* The path lies in the bin directory at the root
UnderRootBin(path) ==
    Len(path) >= 4 /\ SubSeq(path, 1, 4) = <<"b","i","n","/">>

\* The file is listed among the entry points
Flagged(r) ==
    \E j \in 1..Len(structure.entry_points) : structure.entry_points[j] = r.path

\* C11 as stated: a file of the file list is among the entry points exactly
\* when its path ends in one of the four conventional names or it lies under
\* a bin directory at any depth and is of one of the six source categories;
\* a file whose name is none of the four and that is under no bin directory
\* is not flagged.
C11_AnyBinSixCategories ==
    pc = "classify_returned" =>
        \A i \in 1..Len(structure.files) :
            LET r == structure.files[i]
            IN  /\ Flagged(r) <=>
                      \/ ConventionalEnd(r.path)
                      \/ /\ UnderSomeBin(r.path)
                         /\ r.type \in {"python", "r", "shell", "c++", "java", "javascript"}
                /\ ~ConventionalName(r.path) /\ ~UnderSomeBin(r.path) => ~Flagged(r)

\* C11 amended: a file of the file list is among the entry points exactly
\* when its path ends with one of the strings main.py, run.py, app.py,
\* setup.py (the whole file name or the end of a longer one), or it lies in
\* the bin directory at the root and is of category python, r or shell; the
\* entry points are in the order of the file list, each once.
C11_EntryPoints ==
    pc = "classify_returned" =>
        /\ \A i \in 1..Len(structure.files) :
              LET r == structure.files[i]
              IN  Flagged(r) <=>
                      \/ ConventionalEnd(r.path)
                      \/ UnderRootBin(r.path) /\ r.type \in {"python", "r", "shell"}
        /\ structure.entry_points =
              LET paths == [i \in 1..Len(structure.files) |-> structure.files[i].path]
              IN  SelectSeq(paths, LAMBDA p : p \in Range(structure.entry_points))
        /\ \A i, j \in 1..Len(structure.entry_points) :
              structure.entry_points[i] = structure.entry_points[j] => i = j

\* A repository was classified in which domain.py is flagged and a python
\* file under lib/bin is not
C11_Witness ==
    /\ pc = "classify_returned"
    /\ structure.entry_points = <<<<"d","o","m","a","i","n",".","p","y">>>>
    /\ \E i \in 1..Len(structure.files) :
          structure.files[i].path = <<"l","i","b","/","b","i","n","/","x",".","p","y">> /\ structure.files[i].type = "python"

\* C12: analyze_repository_structure returns a descriptor only for a root
\* that exists; for a missing root it raises instead.
C12_MissingRootRaises ==
    pc = "classify_returned" => repo.exists

\* analyze_repository_structure returned the empty descriptor for a root that
\* does not exist
C12_EmptyDescriptor ==
    /\ pc = "classify_returned"
    /\ ~repo.exists
    /\ structure.files = <<>>
    /\ structure.entry_points = <<>>

\* The manifest at the root of the repository is that of m
HasManifest(m) ==
    /\ repo.exists
    /\ HasFile(repo.files, <<"D","E","S","C","R","I","P","T","I","O","N">>)
    /\ FileAt(repo.files, <<"D","E","S","C","R","I","P","T","I","O","N">>).body = Render(m)

\* C13: the r dependency list of a repository with a DESCRIPTION manifest is
\* the list of the entries of its Imports field, in order, whether they share
\* a line or not and whatever field follows; it is empty for a manifest
\* without an Imports field.
C13_AllImports ==
    pc = "classify_returned" =>
        \A m \in Manifests : HasManifest(m) => structure.dependencies.r = ImportsOf(m)

\* The part of C13 that the code keeps: the list is that of the entries when
\* each entry has a line of its own and the field ends the file or its
\* paragraph, or when the field has one entry and nothing follows it in its
\* paragraph; and it is empty without an Imports field
C13_OneEntryPerLine ==
    pc = "classify_returned" =>
        \A m \in Manifests :
            HasManifest(m) /\ m.tail # "field" /\ (m.imports => m.layout = "line_each" \/ m.n = 1)
                => structure.dependencies.r = ImportsOf(m)

(***************************************************************************)
(* The Publisher on bundles whose workflow and output documents are keyed  *)
(* by every short name over the characters the sanitizer replaces          *)
(***************************************************************************)

\* The longest name
MaxNameLen == 3

NameChars == {"a", " ", "/", "\\", ":"}

RECURSIVE NamesOfLen(_)
NamesOfLen(n) ==
    IF n = 0 THEN {<<>>}
    ELSE {Append(s, c) : s \in NamesOfLen(n - 1), c \in NameChars}

Names(maxlen) ==
    UNION {NamesOfLen(n) : n \in 0..maxlen}

\* One workflow document of any name, or two whose names differ by a trailing
\* space only, the first of which also names an output document
SanitizeBundles ==
    {Bundle([InitialGen EXCEPT !.main_readme = <<"new readme">>,
                               !.installation_guide = <<"install">>,
                               !.scaling_guide = <<"scaling">>,
                               !.troubleshooting_guide = <<"troubleshooting">>,
                               !.workflow_docs = <<Item(n, <<"doc 1">>)>>]) :
        n \in Names(MaxNameLen)}
    \cup
    {Bundle([InitialGen EXCEPT !.main_readme = <<"new readme">>,
                               !.installation_guide = <<"install">>,
                               !.scaling_guide = <<"scaling">>,
                               !.troubleshooting_guide = <<"troubleshooting">>,
                               !.workflow_docs = <<Item(n, <<"doc 1">>),
                                                   Item(n \o <<" ">>, <<"doc 2">>)>>,
                               !.output_docs = <<Item(n, <<"doc 3">>)>>]) :
        n \in Names(MaxNameLen - 1)}

InitSanitize ==
    /\ pc = "pub_start"
    /\ run = FirstRun
    /\ args \in KeyedArgSets
    /\ api_key = CLI_KEY
    /\ remote = Removed
    /\ repo \in {Removed, Tree(<<MAIN_PY>>)}
    /\ out = Removed
    /\ llm = IdleLLM
    /\ memo = NoMemo
    /\ structure = NoStructure
    /\ wa = InitialWa
    /\ oa = NoOutputAnalysis
    /\ gen = InitialGen
    /\ documentation \in SanitizeBundles
    /\ pub = InitialPub
    /\ trace = InitialTrace(repo, out)

SpecSanitize == InitSanitize /\ [][Publish]_vars

\* The name, without .md, of the file a write under a directory goes to
Stem(write, dir) ==
    SubSeq(write.path, Len(dir) + 2, Len(write.path) - 3)

\* The sanitized names the Publisher computed for the workflow documents and
\* for the output documents of the bundle, once its writes are planned
SafeWorkflowName(i) ==
    Stem(pub.plan[4 + i], <<"d","o","c","s","/","w","o","r","k","f","l","o","w","s">>)

SafeOutputName(i) ==
    Stem(pub.plan[4 + Len(documentation.workflow_docs) + i], <<"d","o","c","s","/","o","u","t","p","u","t","s">>)

\* C14: sanitizing a sanitized name gives the same name, for every name the
\* Publisher sanitized.
C14_Idempotent ==
    pub.plan # <<>> =>
        /\ \A i \in 1..Len(documentation.workflow_docs) :
              SafeFilename(SafeWorkflowName(i)) = SafeWorkflowName(i)
        /\ \A i \in 1..Len(documentation.output_docs) :
              SafeFilename(SafeOutputName(i)) = SafeOutputName(i)

\* The Publisher sanitized a name that holds each of the four replaced
\* characters or three of them, and the sanitized name differs from it
C14_Witness ==
    /\ pub.plan # <<>>
    /\ Len(documentation.workflow_docs) = 1
    /\ documentation.workflow_docs[1].key = <<":", "/", "\\">>
    /\ SafeWorkflowName(1) = <<"_","_","_">>

\* The sanitized name is the name with an underscore at the positions of its
\* spaces, slashes, backslashes and colons
CharWise(safe, name) ==
    /\ Len(safe) = Len(name)
    /\ \A p \in 1..Len(name) :
          safe[p] = IF name[p] \in {" ", "/", "\\", ":"} THEN "_" ELSE name[p]

\* C15: every sanitized name has the length of the name, an underscore where
\* the name has a space, slash, backslash or colon and the character of the
\* name elsewhere; so the files of two workflow documents whose names differ
\* by a trailing space only are two files.
C15_CharWise ==
    pub.plan # <<>> =>
        /\ \A i \in 1..Len(documentation.workflow_docs) :
              CharWise(SafeWorkflowName(i), documentation.workflow_docs[i].key)
        /\ \A i \in 1..Len(documentation.output_docs) :
              CharWise(SafeOutputName(i), documentation.output_docs[i].key)
        /\ \A i, j \in 1..Len(documentation.workflow_docs) :
              documentation.workflow_docs[j].key = documentation.workflow_docs[i].key \o <<" ">>
                  => pub.plan[4 + i].path # pub.plan[4 + j].path

\* Two workflow documents named "a " and "a  " were published to the files
\* a_.md and a__.md, each with its own text
C15_Witness ==
    /\ pc = "pub_returned"
    /\ Len(documentation.workflow_docs) = 2
    /\ documentation.workflow_docs[1].key = <<"a"," ">>
    /\ Holds(out, <<"d","o","c","s","/","w","o","r","k","f","l","o","w","s","/","a","_",".","m","d">>, <<"doc 1">>)
    /\ Holds(out, <<"d","o","c","s","/","w","o","r","k","f","l","o","w","s","/","a","_","_",".","m","d">>, <<"doc 2">>)

\* C18: in a call of query every wait is of 5; the attempt about to be made
\* has as many waits behind it as attempts, so that one wait lies between any
\* two attempts; query waits only after a failed attempt that is not the
\* third; and when query has returned or raised it has waited once less than
\* it has called the endpoint, so not after the success nor after the third
\* failure, and at most twice.
C18_WaitBetweenAttempts ==
    /\ \A i \in 1..Len(llm.sleeps) : llm.sleeps[i] = 5
    /\ Len(llm.sleeps) <= 2
    /\ llm.state = "attempt" => llm.calls = Len(llm.sleeps)
    /\ llm.state = "sleep" =>
          /\ llm.calls = Len(llm.sleeps) + 1
          /\ ~llm.last.ok
          /\ llm.calls < 3
    /\ llm.state \in {"returned", "raised"} => Len(llm.sleeps) = llm.calls - 1
    /\ llm.state = "raised" => llm.sleeps = <<5, 5>>

\* The third attempt succeeded, after two waits of 5
C18_Witness ==
    /\ llm.state = "returned"
    /\ llm.calls = 3
    /\ llm.last.ok
    /\ llm.sleeps = <<5, 5>>

(***************************************************************************)
(* Reading the links of an index page                                      *)
(***************************************************************************)

RECURSIVE SortedSeq(_)
\* The numbers of a set in increasing order
SortedSeq(S) ==
    IF S = {} THEN <<>>
    ELSE LET least == CHOOSE x \in S : \A y \in S : x <= y
         IN  <<least>> \o SortedSeq(S \ {least})

\* The link that starts at position s of a page: "- [label](target)"
LinkAt(body, s) ==
    LET rest   == Drop(body, s + 1)
        close  == Find(rest, <<"](">>)
        after  == Drop(rest, close + 1)
    IN  [label |-> Take(rest, close - 1),
         target |-> Take(after, Find(after, <<")">>) - 1)]

\* The links of a page, in the order of the page
LinksOf(body) ==
    LET starts == SortedSeq({i \in 1..Len(body) : body[i] = "- ["})
    IN  [i \in 1..Len(starts) |-> LinkAt(body, starts[i])]

\* The part of a page between two of its headings (to its end for "")
Section(body, from, to) ==
    LET a == CHOOSE i \in 1..Len(body) : body[i] = from
        b == IF to = "" THEN Len(body) + 1 ELSE CHOOSE i \in 1..Len(body) : body[i] = to
    IN  SubSeq(body, a + 1, b - 1)

\* The three index pages of the output tree
MainIndexPage == FileAt(out.files, <<"d","o","c","s","/","i","n","d","e","x",".","m","d">>).body

WorkflowIndexPage == FileAt(out.files, <<"d","o","c","s","/","w","o","r","k","f","l","o","w","s","/","i","n","d","e","x",".","m","d">>).body

OutputIndexPage == FileAt(out.files, <<"d","o","c","s","/","o","u","t","p","u","t","s","/","i","n","d","e","x",".","m","d">>).body

\* Where a link of a page in directory dir leads: a target that starts with
\* a slash is no relative link and leads out of the tree
Resolve(dir, target) ==
    IF target # <<>> /\ target[1] = "/" THEN target ELSE Join(dir, target)

\* The writes the Publisher planned for the entries of the three maps
WorkflowWrites ==
    SubSeq(pub.plan, 5, 4 + Len(documentation.workflow_docs))

OutputWrites ==
    SubSeq(pub.plan, 5 + Len(documentation.workflow_docs),
           4 + Len(documentation.workflow_docs) + Len(documentation.output_docs))

CodeWrites ==
    SubSeq(pub.plan, 5 + Len(documentation.workflow_docs) + Len(documentation.output_docs),
           Len(pub.plan) - 3)

\* Every link of the links leads, from directory dir, to the file written
\* for an entry of the map, and every entry of the map has such a link
LinksLead(links, dir, writes) ==
    /\ \A i \in 1..Len(links) :
          \E j \in 1..Len(writes) : Resolve(dir, links[i].target) = writes[j].path
    /\ \A j \in 1..Len(writes) :
          \E i \in 1..Len(links) : Resolve(dir, links[i].target) = writes[j].path

\* C17: every link of the three index pages is relative and leads, from the
\* directory of its page, to the file the Publisher wrote for its entry.
C17_LinksResolve ==
    pc = "pub_returned" =>
        /\ LinksLead(LinksOf(Section(MainIndexPage, "## Workflows", "## Output Files")),
                     <<"d","o","c","s">>, WorkflowWrites)
        /\ LinksLead(LinksOf(Section(MainIndexPage, "## Output Files", "## Advanced Topics")),
                     <<"d","o","c","s">>, OutputWrites)
        /\ LinksLead(LinksOf(Section(MainIndexPage, "## Code Documentation", "")),
                     <<"d","o","c","s">>, CodeWrites)
        /\ LinksLead(LinksOf(WorkflowIndexPage), <<"d","o","c","s","/","w","o","r","k","f","l","o","w","s">>, WorkflowWrites)
        /\ LinksLead(LinksOf(OutputIndexPage), <<"d","o","c","s","/","o","u","t","p","u","t","s">>, OutputWrites)

\* The part of C17 that the code keeps: the links of the global index lead to
\* the files of the entries (for code files whose name does not occur in
\* their directory part, as is the case of all code files here)
C17_GlobalLinksResolve ==
    pc = "pub_returned" =>
        /\ LinksLead(LinksOf(Section(MainIndexPage, "## Workflows", "## Output Files")),
                     <<"d","o","c","s">>, WorkflowWrites)
        /\ LinksLead(LinksOf(Section(MainIndexPage, "## Output Files", "## Advanced Topics")),
                     <<"d","o","c","s">>, OutputWrites)
        /\ LinksLead(LinksOf(Section(MainIndexPage, "## Code Documentation", "")),
                     <<"d","o","c","s">>, CodeWrites)

\* The link of the workflow-section index to the document of "Data Import"
\* is /Data_Import.md
C17_AbsoluteLink ==
    /\ pc = "pub_returned"
    /\ Len(documentation.workflow_docs) = 1
    /\ LinksOf(WorkflowIndexPage) = <<[label |-> <<"D","a","t","a"," ","I","m","p","o","r","t">>, target |-> <<"/","D","a","t","a","_","I","m","p","o","r","t",".","m","d">>]>>

\* C20: after publish_documentation every entry of the workflow, output and
\* code maps has its text in the file written for it: no file of an entry
\* holds the text of another entry or an index page.
C20_EveryEntryKept ==
    pc = "pub_returned" =>
        /\ \A i \in 1..Len(documentation.workflow_docs) :
              Holds(out, WorkflowWrites[i].path, documentation.workflow_docs[i].val)
        /\ \A i \in 1..Len(documentation.output_docs) :
              Holds(out, OutputWrites[i].path, documentation.output_docs[i].val)
        /\ \A i \in 1..Len(documentation.code_docs) :
              Holds(out, CodeWrites[i].path, documentation.code_docs[i].val)

\* The document of "Data Import" was lost: its file holds the document of
\* "Data_Import"
C20_Collision ==
    /\ pc = "pub_returned"
    /\ Len(documentation.workflow_docs) = 2
    /\ WorkflowWrites[1].path = WorkflowWrites[2].path
    /\ Holds(out, <<"d","o","c","s","/","w","o","r","k","f","l","o","w","s","/","D","a","t","a","_","I","m","p","o","r","t",".","m","d">>, <<"other doc">>)

\* The document of the workflow "index" was lost: its file holds the index
\* page of the workflows
C20_IndexOverwritten ==
    /\ pc = "pub_returned"
    /\ Len(documentation.workflow_docs) = 1
    /\ documentation.workflow_docs[1].key = <<"i","n","d","e","x">>
    /\ ~Holds(out, <<"d","o","c","s","/","w","o","r","k","f","l","o","w","s","/","i","n","d","e","x",".","m","d">>, <<"index doc">>)
    /\ WorkflowIndexPage[1] = "# Workflow Documentation"

\* The paths of the writes that were done before the write that failed
EarlierPaths ==
    {pub.plan[j].path : j \in 1..(pub.k - 1)}

\* The text of the latest of the earlier writes to a path
LatestEarlier(path) ==
    LET j == CHOOSE j \in 1..(pub.k - 1) :
                /\ pub.plan[j].path = path
                /\ \A h \in 1..(pub.k - 1) : pub.plan[h].path = path => h <= j
    IN  pub.plan[j].body

MaxWorkflows == 3

AssembleNames == {<<"F","i","t">>, <<"D","a","t","a"," ","I","m","p","o","r","t">>}

Workflow(has_name, name) ==
    [has_name |-> has_name, workflow_name |-> name, steps |-> <<"{workflow}">>,
     entry_point |-> MAIN_PY.path]

\* The workflow lists: every list of named workflows, names repeated or not,
\* and one list with a workflow that has no name
AssembleWorkflows ==
    UNION {[1..n -> {Workflow(TRUE, name) : name \in AssembleNames}] : n \in 0..MaxWorkflows}
        \cup {<<Workflow(TRUE, <<"F","i","t">>), Workflow(FALSE, <<>>)>>}

AssembleOutputs ==
    {[returned |-> TRUE, files |-> <<>>],
     [returned |-> TRUE,
      files |-> <<OutputFile(<<"c","s","v">>, <<"a",".","c","s","v">>), OutputFile(<<"j","s","o","n">>, <<"b",".","j","s","o","n">>),
                  OutputFile(<<"c","s","v">>, <<"c",".","c","s","v">>)>>],
     [returned |-> TRUE,
      files |-> <<OutputFile(<<"j","s","o","n">>, <<"b",".","j","s","o","n">>), OutputFile(<<"c","s","v">>, <<"a",".","c","s","v">>)>>]}

InitAssemble ==
    /\ pc = "gen_start"
    /\ run = FirstRun
    /\ args \in KeyedArgSets
    /\ api_key = CLI_KEY
    /\ remote = Removed
    /\ repo = Tree(<<MAIN_PY, UTIL_PY>>)
    /\ out = Removed
    /\ llm = IdleLLM
    /\ memo = NoMemo
    /\ structure = AnalyzeRepositoryStructure(ExtractRepoName(args.repo_url), repo)
    /\ \E ws \in AssembleWorkflows :
          wa = [InitialWa EXCEPT !.workflows = ws,
                                 !.result = WorkflowAnalysis([InitialWa EXCEPT !.workflows = ws])]
    /\ oa \in AssembleOutputs
    /\ gen = InitialGen
    /\ documentation = NoDocumentation
    /\ pub = InitialPub
    /\ trace = InitialTrace(repo, out)

NextAssemble ==
    \/ Query
    \/ Generate
    \/ MainProceeds
    \/ Publish
    \/ MainExcept

SpecAssemble == InitAssemble /\ [][NextAssemble]_vars

\* The place of the first x of a sequence
FirstAt(s, x) ==
    CHOOSE i \in 1..Len(s) : s[i] = x /\ \A j \in 1..(i - 1) : s[j] # x

\* The keys are the values of the generated sequence, each once, in the order
\* in which they were first generated
InOrderOfFirst(keys, generated) ==
    /\ Range(keys) = Range(generated)
    /\ \A i, j \in 1..Len(keys) :
          i < j => FirstAt(generated, keys[i]) < FirstAt(generated, keys[j])

Labels(links) ==
    [i \in 1..Len(links) |-> links[i].label]

\* C16: the keys of the workflow and output maps of the bundle are in the
\* order in which the Assembler generated their documents (that of the
\* workflows and of the output file types); and once the Publisher has
\* returned, the workflow links and the output links of the global index and
\* the links of the two section indexes are one per key of their map, in the
\* order of the map.
C16_LinksInMapOrder ==
    /\ documentation.returned =>
          /\ InOrderOfFirst(Keys(documentation.workflow_docs),
                            [i \in 1..Len(wa.result.workflows) |->
                                wa.result.workflows[i].workflow_name])
          /\ InOrderOfFirst(Keys(documentation.output_docs),
                            [i \in 1..Len(oa.files) |-> oa.files[i].file_type])
    /\ "Publisher" \in trace.finished =>
          /\ Labels(LinksOf(Section(MainIndexPage, "## Workflows", "## Output Files")))
                = Keys(documentation.workflow_docs)
          /\ Labels(LinksOf(Section(MainIndexPage, "## Output Files", "## Advanced Topics")))
                = Keys(documentation.output_docs)
          /\ Labels(LinksOf(WorkflowIndexPage)) = Keys(documentation.workflow_docs)
          /\ Labels(LinksOf(OutputIndexPage)) = Keys(documentation.output_docs)

\* The documents of the workflows Fit, Data Import, Fit and of the output
\* files of types csv, json, csv were generated and published: the links
\* are those of Fit and Data Import, and of csv and json
C16_Witness ==
    /\ pc = "exit"
    /\ "Publisher" \in trace.finished
    /\ Len(wa.result.workflows) = 3
    /\ Labels(LinksOf(WorkflowIndexPage)) = <<<<"F","i","t">>, <<"D","a","t","a"," ","I","m","p","o","r","t">>>>
    /\ Labels(LinksOf(OutputIndexPage)) = <<<<"c","s","v">>, <<"j","s","o","n">>>>
    /\ Len(oa.files) = 3

\* C21: the Assembler never aborts because a workflow of the Inferrer's
\* result has no workflow name, and the bundle it returns holds one workflow
\* document per workflow of the result.
C21_AcceptedConsumable ==
    /\ trace.gen_error # "KeyError"
    /\ documentation.returned =>
          Len(documentation.workflow_docs) = Len(wa.result.workflows)

\* The Inferrer returned a result with a workflow parsed from a JSON object
\* without workflow_name, and the Assembler raised KeyError: main ended
\* without a bundle and without publishing
C21_KeyErrorAborts ==
    /\ pc = "exit"
    /\ "Summarizer" \in trace.finished
    /\ Len(wa.result.workflows) = 1
    /\ ~wa.result.workflows[1].has_name
    /\ trace.gen_error = "KeyError"
    /\ ~documentation.returned
    /\ "Publisher" \notin Range(trace.started)

(***************************************************************************)
(* main from the workflow analysis on, for repositories with up to two     *)
(* candidates                                                              *)
(***************************************************************************)

InitInferOn ==
    /\ pc = "wa_start"
    /\ run = FirstRun
    /\ args \in KeyedArgSets
    /\ api_key = CLI_KEY
    /\ remote = Removed
    /\ repo \in {Tree(<<MAIN_PY, OLD_README>>), Tree(<<MAIN_PY, RUN_SH, UTIL_PY>>)}
    /\ out = Removed
    /\ llm = IdleLLM
    /\ memo = NoMemo
    /\ structure = AnalyzeRepositoryStructure(ExtractRepoName(args.repo_url), repo)
    /\ wa = InitialWa
    /\ oa = NoOutputAnalysis
    /\ gen = InitialGen
    /\ documentation = NoDocumentation
    /\ pub = InitialPub
    /\ trace = InitialTrace(repo, out)

NextInferOn ==
    \/ Infer
    \/ Query
    \/ MainProceeds
    \/ MainExcept
    \/ OaReturns
    \/ OaRaises
    \/ Generate
    \/ Publish

SpecInferOn == InitInferOn /\ [][NextInferOn]_vars

\* A query of the Workflow Inferrer has failed after its attempts
InferrerQueryFailed ==
    trace.raised \cap {"Inferrer", "Summarizer"} # {}

\* After a query of analyze_workflow has failed: no analysis is returned, no
\* later stage has started, nothing is written, the item at hand is neither
\* an entry point nor among the unparsed, and the queries issued are those up
\* to the one that failed
NothingAfterFailure ==
    /\ pc \in {"wa_raised", "exit"}
    /\ ~wa.result.returned
    /\ Range(trace.started) \cap {"OutputAnalyzer", "Assembler", "Publisher"} = {}
    /\ ~documentation.returned
    /\ out = trace.out0
    /\ wa.i <= Len(wa.potential) =>
          /\ wa.queries = [candidate |-> wa.i, workflow |-> 0, aggregate |-> 0]
          /\ \A n \in 1..Len(wa.unparsed) : wa.unparsed[n] # wa.potential[wa.i].path
          /\ \A n \in 1..Len(wa.entry_points) :
                wa.entry_points[n].path # wa.potential[wa.i].path
    /\ wa.i > Len(wa.potential) /\ wa.j <= Len(wa.entry_points) =>
          /\ wa.queries = [candidate |-> Len(wa.potential), workflow |-> wa.j,
                           aggregate |-> 0]
          /\ \A n \in 1..Len(wa.workflows) :
                wa.workflows[n].entry_point # wa.entry_points[wa.j].path
    /\ wa.i > Len(wa.potential) /\ wa.j > Len(wa.entry_points) =>
          /\ wa.queries.aggregate = Len(wa.replies) + 1
          /\ wa.queries.aggregate \in {1, 2}

\* A step from a state in which a query of analyze_workflow has raised is
\* the raise of analyze_workflow, after 3 attempts of the query and with
\* nothing recorded for the item
RaisesAtOnce ==
    pc \in WaPcs /\ llm.state = "raised" =>
        llm.calls = 3 /\ pc' = "wa_raised" /\ wa' = wa

\* C22: when a query of the Workflow Inferrer (for a candidate, for an entry
\* point or an aggregate) has failed after its 3 attempts, the next thing
\* that happens is that analyze_workflow raises, with nothing recorded for
\* the item; and from then on no workflow analysis is returned, no later
\* query is issued and neither the Assembler nor the Publisher runs.
C22_QueryFailureRaises ==
    /\ [][RaisesAtOnce]_vars
    /\ [](InferrerQueryFailed => NothingAfterFailure)

\* The query for the second of two candidates failed after the first was
\* accepted as an entry point: main ended without an analysis
C22_Witness ==
    /\ pc = "exit"
    /\ "Inferrer" \in trace.raised
    /\ Len(wa.potential) = 2
    /\ wa.i = 2
    /\ Len(wa.entry_points) = 1
    /\ wa.queries.candidate = 2
    /\ wa.queries.workflow = 0

(***************************************************************************)
(* The Structure Classifier and the file collection of the Workflow        *)
(* Inferrer on the same repository, for files of every extension the two   *)
(* know and some they do not                                               *)
(***************************************************************************)

\* The most files of a repository of source files
MaxSourceFiles == 2

SourceNames ==
    {<<"a", ".", "p", "y">>,
     <<"a", ".", "P", "Y">>,
     <<"a", ".", "R">>,
     <<"a", ".", "R", "m", "d">>,
     <<"a", ".", "s", "h">>,
     <<"a", ".", "b", "a", "s", "h">>,
     <<"a", ".", "c">>,
     <<"a", ".", "c", "p", "p">>,
     <<"a", ".", "c", "c">>,
     <<"a", ".", "h">>,
     <<"a", ".", "h", "p", "p">>,
     <<"a", ".", "j", "a", "v", "a">>,
     <<"a", ".", "j", "s">>,
     <<"a", ".", "t", "s">>,
     <<"a", ".", "m", "d">>,
     <<"a", ".", "j", "s", "o", "n">>,
     <<"M", "a", "k", "e", "f", "i", "l", "e">>,
     <<".", "b", "a", "s", "h", "r", "c">>,
     <<"l", "i", "b", "/", "b", ".", "c", "c">>,
     <<"a", ".", "p", "y", ".", "t", "x", "t">>}

RECURSIVE SeqOfSet(_)
\* The elements of a set, in some order
SeqOfSet(S) ==
    IF S = {} THEN <<>>
    ELSE LET x == CHOOSE x \in S : TRUE
         IN  <<x>> \o SeqOfSet(S \ {x})

SourceRepos ==
    {Tree([i \in 1..Cardinality(chosen) |->
              File(SeqOfSet(chosen)[i], 10, TRUE, <<"content">>)]) :
        chosen \in {c \in SUBSET SourceNames : Cardinality(c) <= MaxSourceFiles}}

InitSources ==
    /\ pc = "classify_start"
    /\ run = FirstRun
    /\ args \in KeyedArgSets
    /\ api_key = CLI_KEY
    /\ remote = Removed
    /\ repo \in SourceRepos
    /\ out = Removed
    /\ llm = IdleLLM
    /\ memo = NoMemo
    /\ structure = NoStructure
    /\ wa = InitialWa
    /\ oa = NoOutputAnalysis
    /\ gen = InitialGen
    /\ documentation = NoDocumentation
    /\ pub = InitialPub
    /\ trace = InitialTrace(repo, out)

NextSources ==
    \/ Classify
    \/ MainProceeds
    \/ WaStart

SpecSources == InitSources /\ [][NextSources]_vars

\* The file is among those the Inferrer collected for its analysis
Collected(path) ==
    \E n \in 1..Len(wa.analysis_files) : wa.analysis_files[n].path = path

\* C23: once the Classifier and the Inferrer's file collection have both run
\* on a repository, a file of the file list is of a code category (python, r,
\* shell, c++, java, javascript), and so gets a code document, exactly when
\* the Inferrer collected it as a code file.
C23_SameSourceFiles ==
    pc = "wa_entry" =>
        \A i \in 1..Len(structure.files) :
            structure.files[i].type \in {"python", "r", "shell", "c++", "java", "javascript"}
                <=> Collected(structure.files[i].path)

\* The direction of C23 that the code keeps: every file the Inferrer
\* collected is of a code category and gets a code document
C23_CollectedAreSources ==
    pc = "wa_entry" =>
        \A n \in 1..Len(wa.analysis_files) :
            \E k \in 1..Len(CodeFiles(structure, repo)) :
                CodeFiles(structure, repo)[k].path = wa.analysis_files[n].path

\* a.cc is of category c++ and gets a code document, and the Inferrer did not
\* collect it
C23_CcNotCollected ==
    /\ pc = "wa_entry"
    /\ Len(structure.files) = 1
    /\ structure.files[1] = [path |-> <<"a",".","c","c">>, type |-> "c++", size |-> 10]
    /\ Len(CodeFiles(structure, repo)) = 1
    /\ wa.analysis_files = <<>>

(***************************************************************************)
(* The Publisher on bundles whose workflow names and output types are      *)
(* attempts to leave the documentation folders: every short name over the  *)
(* dot, the path separators and the colon, and some longer ones            *)
(***************************************************************************)

\* The longest enumerated name of an escaping bundle
MaxEscapeLen == 3

EscapeChars == {".", "/", "\\", ":"}

RECURSIVE EscapesOfLen(_)
EscapesOfLen(n) ==
    IF n = 0 THEN {<<>>}
    ELSE {Append(s, c) : s \in EscapesOfLen(n - 1), c \in EscapeChars}

EscapeNames ==
    UNION {EscapesOfLen(n) : n \in 0..MaxEscapeLen}
        \cup {<<".",".","/","a">>, <<".",".","/",".",".","/","a">>, <<"a","/",".",".","/",".",".","/","b">>, <<"/","e","t","c","/","a">>, <<".",".","">>, <<"C",":","">>, <<"."," ",".">>}

\* A workflow document and an output document of the same name, and the
\* code document of a file in a subdirectory
EscapeBundles ==
    {Bundle([InitialGen EXCEPT !.main_readme = <<"new readme">>,
                               !.installation_guide = <<"install">>,
                               !.scaling_guide = <<"scaling">>,
                               !.troubleshooting_guide = <<"troubleshooting">>,
                               !.workflow_docs = <<Item(n, <<"doc 1">>)>>,
                               !.output_docs = <<Item(n, <<"doc 2">>)>>,
                               !.code_docs = <<Item(<<"l","i","b","/","b",".","p","y">>, <<"doc 3">>)>>]) :
        n \in EscapeNames}

InitEscape ==
    /\ pc = "pub_start"
    /\ run = FirstRun
    /\ args \in KeyedArgSets
    /\ api_key = CLI_KEY
    /\ remote = Removed
    /\ repo \in {Removed, Tree(<<MAIN_PY, OLD_README>>)}
    /\ out = Removed
    /\ llm = IdleLLM
    /\ memo = NoMemo
    /\ structure = NoStructure
    /\ wa = InitialWa
    /\ oa = NoOutputAnalysis
    /\ gen = InitialGen
    /\ documentation \in EscapeBundles
    /\ pub = InitialPub
    /\ trace = InitialTrace(repo, out)

SpecEscape == InitEscape /\ [][Publish]_vars

\* A component of the path starts at position i
StartsComponent(path, i) ==
    i = 1 \/ path[i - 1] = "/"

\* A component of the path ends at position i
EndsComponent(path, i) ==
    i = Len(path) \/ path[i + 1] = "/"

\* The path, relative to a directory, stays in the directory: it is not
\* absolute and none of its components is empty, "." or ".."
StaysInside(path) ==
    /\ path # <<>>
    /\ path[1] # "/"
    /\ path[Len(path)] # "/"
    /\ \A i \in 1..Len(path) :
          /\ path[i] = "/" => ~EndsComponent(path, i)
          /\ StartsComponent(path, i) /\ path[i] = "." =>
                /\ ~EndsComponent(path, i)
                /\ ~(path[i + 1] = "." /\ EndsComponent(path, i + 1))

\* The file is as it was in the tree before
Untouched(file, before) ==
    \E n \in 1..Len(before.files) : before.files[n] = file

\* The path is that of a direct child of the directory
DirectChild(path, dir) ==
    /\ DirName(path) = dir
    /\ StaysInside(path)

\* C24: whatever the names, every file that publish_documentation created or
\* changed under the output directory has a path that stays inside it, every
\* file it created or changed in the repository is README.md or has a path
\* under docs that stays inside, a repository that does not exist stays so,
\* and the file of every workflow document is a direct child of
\* docs/workflows and that of every output document one of docs/outputs,
\* and is in the output directory once written.
C24_WritesContained ==
    /\ \A i \in 1..Len(out.files) :
          Untouched(out.files[i], trace.out0) \/ StaysInside(out.files[i].path)
    /\ \A i \in 1..Len(repo.files) :
          \/ Untouched(repo.files[i], trace.repo0)
          \/ repo.files[i].path = README
          \/ IsUnder(repo.files[i].path, DOCS_DIR) /\ StaysInside(repo.files[i].path)
    /\ ~trace.repo0.exists => repo = trace.repo0
    /\ pub.plan # <<>> =>
          /\ \A i \in 1..Len(WorkflowWrites) :
                /\ DirectChild(WorkflowWrites[i].path, WORKFLOW_DOCS_DIR)
                /\ pub.k > 4 + i => HasFile(out.files, WorkflowWrites[i].path)
          /\ \A i \in 1..Len(OutputWrites) :
                /\ DirectChild(OutputWrites[i].path, OUTPUT_DOCS_DIR)
                /\ pub.k > 4 + Len(WorkflowWrites) + i
                      => HasFile(out.files, OutputWrites[i].path)

\* The bundle named ../a was published and mirrored: its documents are
\* docs/workflows/.._a.md and docs/outputs/.._a.md in the output directory
\* and in the repository
C24_Witness ==
    /\ pc = "pub_returned"
    /\ documentation.workflow_docs[1].key = <<".",".","/","a">>
    /\ Holds(out, <<"d","o","c","s","/","w","o","r","k","f","l","o","w","s","/",".",".","_","a",".","m","d">>, <<"doc 1">>)
    /\ Holds(out, <<"d","o","c","s","/","o","u","t","p","u","t","s","/",".",".","_","a",".","m","d">>, <<"doc 2">>)
    /\ Holds(repo, <<"d","o","c","s","/","w","o","r","k","f","l","o","w","s","/",".",".","_","a",".","m","d">>, <<"doc 1">>)
    /\ Holds(repo, <<"d","o","c","s","/","o","u","t","p","u","t","s","/",".",".","_","a",".","m","d">>, <<"doc 2">>)
    /\ Holds(repo, <<"m","a","i","n",".","p","y">>, FileAt(trace.repo0.files, <<"m","a","i","n",".","p","y">>).body)

====
